---- MODULE Spec2Model ----
(***************************************************************************)
(* Small-block cache allocator of numpy/_core/src/multiarray (alloc.c):    *)
(* the data cache and the dimension cache (_npy_alloc_cache,               *)
(* _npy_free_cache, _npy_clear_cache), the aligned allocator               *)
(* (PyDataMem_NEW / NEW_ZEROED / FREE / RENEW, align_pointer), the global  *)
(* alignment (npy_datamem_set_align) and the event hook                    *)
(* (PyDataMem_SetEventHook).                                               *)
(*                                                                         *)
(* Memory is modelled byte by byte.  `heap` is the system allocator's view *)
(* (base address -> number of bytes), `mem` holds every initialised byte   *)
(* of the live allocations.  A pointer stored in memory occupies PtrSize   *)
(* bytes, each byte remembering the pointer and its index, so that a       *)
(* partly overwritten pointer reads back as BadPtr.                        *)
(***************************************************************************)
EXTENDS Integers, Sequences, FiniteSets, TLC

\* ---------------------------------------------------------------- constants
NBUCKETS == 1024
NBUCKETS_DIM == 16
NCACHE == 7
MIN_ALIGN == 16
\* sizeof(void *) and sizeof(npy_intp)
PtrSize == 8
IntpSize == 8

\* ------------------------------------------------------------------- bounds
\* width of size_t / npy_uintp in bits (sizes and addresses wrap modulo 2^w)
WordBits == 16
\* number of blocks the callers hold at the same time
MaxHeld == 1
\* number of blocks the system allocator has room for
MaxBlocks == 2
\* a size class of the data cache, and a second request size
SmallSz == 24
\* number of leading bytes of a block a caller writes
MaxFill == 24

NULL == 0
BadPtr == -1
WordMod == 2 ^ WordBits
\* the system allocator hands out blocks inside disjoint slots of this many bytes
SlotStride == 2 * NBUCKETS
\* malloc returns addresses aligned to 16 bytes: their residues modulo 32
BaseResidues == {0, 16}

\* ------------------------------------------------------- unsigned arithmetic
Wrap(x) == x % WordMod

RECURSIVE BitAnd(_, _)
BitAnd(x, y) ==
    IF x = 0 \/ y = 0 THEN 0
    ELSE (IF x % 2 = 1 /\ y % 2 = 1 THEN 1 ELSE 0) + 2 * BitAnd(x \div 2, y \div 2)

RECURSIVE BitOr(_, _)
BitOr(x, y) ==
    IF x = 0 THEN y
    ELSE IF y = 0 THEN x
    ELSE (IF x % 2 = 1 \/ y % 2 = 1 THEN 1 ELSE 0) + 2 * BitOr(x \div 2, y \div 2)

RECURSIVE BitXor(_, _)
BitXor(x, y) ==
    IF x = 0 THEN y
    ELSE IF y = 0 THEN x
    ELSE (IF (x % 2) # (y % 2) THEN 1 ELSE 0) + 2 * BitXor(x \div 2, y \div 2)

\* ~x on a word
BitNot(x) == (WordMod - 1) - x

Min(a, b) == IF a < b THEN a ELSE b
Max(a, b) == IF a > b THEN a ELSE b

\* ------------------------------------------------------------------- state
VARIABLES
    heap,                    \* system allocator: base address -> bytes allocated
    mem,                     \* initialised bytes of live allocations: address -> byte
    datacache,               \* cache_bucket datacache[NBUCKETS]
    dimcache,                \* cache_bucket dimcache[NBUCKETS_DIM]
    datamem_align,
    datamem_align_mask,
    eventhook,               \* _PyDataMem_eventhook
    eventhook_user_data,     \* _PyDataMem_eventhook_user_data
    held,                    \* blocks the callers hold: [p, sz, kind]
    last,                    \* the last call: its arguments, result, system calls, hook calls
    fault,                   \* "none", or the undefined behaviour that was hit
    thr,                     \* concurrent callers: thread -> position and locals
    gil,                     \* the thread inside NPY_ALLOW_C_API, or NoThread
    slots,                   \* the cache_bucket concurrent callers share, as the C struct
    fenv_flags               \* the floating-point exception flags raised (<fenv.h>)

\* the variables of the concurrent callers, and the floating-point
\* environment: what the sequential callers of alloc.c leave alone
cvars == <<thr, gil, slots, fenv_flags>>

vars == <<heap, mem, datacache, dimcache, datamem_align, datamem_align_mask,
          eventhook, eventhook_user_data, held, last, fault, thr, gil, slots,
          fenv_flags>>

\* ------------------------------------------------------------ memory bytes
\* A call threads the machine m = [heap, mem, calls, hooks, fault]: the system
\* allocator's blocks, the bytes, the system calls and hook calls of the
\* running handler, and the undefined behaviour it has hit.
\* heap[b] = [size, zero]: the allocation at b has size bytes, of which the
\* first zero bytes were zero-filled by calloc.  mem[a] is the byte at a when
\* it differs from that background: a byte is mem[a] if a is in DOMAIN mem,
\* else 0 inside a zero-filled prefix, else Undef (not initialised).
Machine == [heap |-> heap, mem |-> mem, calls |-> <<>>, hooks |-> <<>>, fault |-> fault]

Undef == -2

Range(lo, n) == lo .. (lo + n - 1)

\* [lo, lo + n) lies inside one live allocation of heap h
InBounds(h, lo, n) ==
    \E b \in DOMAIN h : b <= lo /\ lo + n <= b + h[b].size

Background(h, a) ==
    IF \E b \in DOMAIN h : b <= a /\ a < b + h[b].zero THEN 0 ELSE Undef

Byte(m, a) == IF a \in DOMAIN m.mem THEN m.mem[a] ELSE Background(m.heap, a)

\* The n bytes at lo overwritten (Undef included).  v gives the new byte of
\* every address of the range where it may differ from the background.
Overwrite(m, lo, n, v) ==
    LET outside == {a \in DOMAIN m.mem : a < lo \/ a >= lo + n}
        inside == {a \in DOMAIN v : v[a] # Background(m.heap, a)}
    IN [m EXCEPT !.mem = [a \in outside \cup inside |->
                             IF a \in inside THEN v[a] ELSE m.mem[a]]]

\* byte i of the stored pointer b
PtrByte(b, i) == 256 + b * PtrSize + i

\* the pointer stored in the PtrSize bytes at address a
LoadPtr(m, a) ==
    LET b0 == Byte(m, a)
    IN IF /\ b0 >= 256
          /\ \A i \in 0 .. (PtrSize - 1) : Byte(m, a + i) = PtrByte((b0 - 256) \div PtrSize, i)
       THEN (b0 - 256) \div PtrSize
       ELSE BadPtr

StorePtr(m, a, b) ==
    Overwrite(m, a, PtrSize, [x \in Range(a, PtrSize) |-> PtrByte(b, x - a)])

\* the byte the caller writes at offset i of its block
Pat(i) == 1 + (i % 200)

\* ------------------------------------------------------- system allocator
SlotOf(a) == a \div SlotStride
FreeSlots(h, nslots) == {s \in 1 .. nslots : \A b \in DOMAIN h : SlotOf(b) # s}
\* The addresses a fresh allocation may get when the system has room for
\* nslots blocks.  Addresses are compared only for equality and for their
\* residue modulo the alignment, so the lowest free slot stands for every free
\* place, with every residue malloc may produce.
FreshBases(h, nslots, residues) ==
    IF FreeSlots(h, nslots) = {} THEN {}
    ELSE LET s == CHOOSE x \in FreeSlots(h, nslots) : \A y \in FreeSlots(h, nslots) : x <= y
         IN {s * SlotStride + r : r \in residues}
\* what malloc / calloc may return: NULL (out of memory) or a fresh block
MallocOutcomes(h, nslots, residues) == {NULL} \cup FreshBases(h, nslots, residues)
\* what realloc(b, n) may return: NULL, the same base, or a fresh block
ReallocOutcomes(h, b, nslots, residues) == {NULL, b} \cup FreshBases(h, nslots, residues)

Fault(m, what) == [m EXCEPT !.fault = IF @ = "none" THEN what ELSE @]

Without(h, b) == [x \in (DOMAIN h) \ {b} |-> h[x]]

\* malloc(n) returning b
malloc(m, n, b) ==
    [m EXCEPT !.calls = Append(@, <<"malloc", n, b>>),
              !.heap = IF b = NULL THEN @ ELSE (b :> [size |-> n, zero |-> 0]) @@ @]

\* calloc(n, 1) returning b: the block is zero-filled
calloc(m, n, b) ==
    [m EXCEPT !.calls = Append(@, <<"calloc", n, b>>),
              !.heap = IF b = NULL THEN @ ELSE (b :> [size |-> n, zero |-> n]) @@ @]

\* free(b): b is NULL or the base of a live allocation, anything else is undefined
free(m, b) ==
    LET m1 == [m EXCEPT !.calls = Append(@, <<"free", b, NULL>>)]
    IN IF b = NULL THEN m1
       ELSE IF b \notin DOMAIN m.heap THEN Fault(m1, "bad_free")
       ELSE [m1 EXCEPT !.heap = Without(@, b),
                       !.mem = [a \in (DOMAIN @) \ Range(b, m.heap[b].size) |-> @[a]]]

\* realloc(b, n) returning r: NULL leaves the block alone; otherwise the first
\* min(old, n) bytes are kept, at the same base or at a fresh one
realloc(m, b, n, r) ==
    LET m1 == [m EXCEPT !.calls = Append(@, <<"realloc", b, n, r>>)]
    IN IF b \notin DOMAIN m.heap THEN Fault(m1, "bad_realloc")
       ELSE IF r = NULL THEN m1
       ELSE LET old == m.heap[b]
                keep == Min(old.size, n)
                kept == {a \in DOMAIN m.mem : b <= a /\ a < b + keep}
                other == {a \in DOMAIN m.mem : a < b \/ a >= b + old.size}
            IN [m1 EXCEPT
                  !.heap = (r :> [size |-> n, zero |-> Min(old.zero, keep)]) @@ Without(@, b),
                  !.mem = [a \in other \cup {r + (x - b) : x \in kept} |->
                             IF a \in other THEN m.mem[a] ELSE m.mem[b + (a - r)]]]

\* memset(p, 0, n)
memset0(m, p, n) ==
    IF n = 0 THEN m
    ELSE IF ~InBounds(m.heap, p, n) THEN Fault(m, "oob_write")
    ELSE Overwrite(m, p, n, [a \in Range(p, n) |-> 0])

\* memmove(dst, src, n): the n bytes at src, initialised or not, end up at dst
memmove(m, dst, src, n) ==
    IF n = 0 THEN m
    ELSE IF ~InBounds(m.heap, src, n) THEN Fault(m, "oob_read")
    ELSE IF ~InBounds(m.heap, dst, n) THEN Fault(m, "oob_write")
    ELSE LET
             \* where the source byte is stored, and where the zero-filled prefix
             \* ends between a source byte and its destination
             ends == {b + m.heap[b].zero : b \in DOMAIN m.heap}
             near == UNION {Range(Min(e, e - (src - dst)), Max(e, e - (src - dst)) - Min(e, e - (src - dst))) : e \in ends}
             cand == {dst + (x - src) : x \in {y \in DOMAIN m.mem : src <= y /\ y < src + n}}
                     \cup {a \in near : dst <= a /\ a < dst + n}
         IN Overwrite(m, dst, n, [a \in cand |-> Byte(m, src + (a - dst))])

\* --------------------------------------------------------------- event hook
\* (*_PyDataMem_eventhook)(old, new, size, _PyDataMem_eventhook_user_data),
\* guarded by _PyDataMem_eventhook != NULL
CallHook(m, old, new, size) ==
    IF eventhook # NULL
    THEN [m EXCEPT !.hooks = Append(@, <<eventhook, old, new, size, eventhook_user_data>>)]
    ELSE m

\* -------------------------------------------------------- aligned allocator
get_aligned_size(size) == Wrap(size + PtrSize + datamem_align_mask)

\* the aligned address align_pointer computes for ptr
aligned_address(ptr) ==
    BitAnd(Wrap(ptr + PtrSize + datamem_align_mask), BitNot(datamem_align_mask))

\* align_pointer(ptr): stores ptr in the word before the aligned address
align_pointer(m, ptr) ==
    LET a == aligned_address(ptr)
    IN IF ~InBounds(m.heap, a - PtrSize, PtrSize) THEN Fault(m, "oob_write")
       ELSE StorePtr(m, a - PtrSize, ptr)

get_original_pointer(m, aligned_ptr) == LoadPtr(m, aligned_ptr - PtrSize)

\* PyDataMem_NEW that reports malloc's address to the hook
PyDataMem_NEW_rawhook(m, size, b) ==
    LET m1 == malloc(m, get_aligned_size(size), b)
        m2 == IF b # NULL THEN align_pointer(m1, b) ELSE m1
        result == IF b # NULL THEN aligned_address(b) ELSE NULL
    IN [m |-> CallHook(m2, NULL, b, size), ret |-> result]

\* PyDataMem_NEW(size), malloc returning b
PyDataMem_NEW(m, size, b) ==
    LET m1 == malloc(m, get_aligned_size(size), b)
        m2 == IF b # NULL THEN align_pointer(m1, b) ELSE m1
        result == IF b # NULL THEN aligned_address(b) ELSE NULL
    IN [m |-> CallHook(m2, NULL, result, size), ret |-> result]

\* PyDataMem_FREE that does not notify the hook
PyDataMem_FREE_nohook(m, ptr) ==
    IF ptr # NULL THEN free(m, get_original_pointer(m, ptr)) ELSE m

\* PyDataMem_FREE(ptr)
PyDataMem_FREE(m, ptr) ==
    LET m1 == IF ptr # NULL THEN free(m, get_original_pointer(m, ptr)) ELSE m
    IN CallHook(m1, ptr, NULL, 0)

\* PyDataMem_RENEW that gives the block up when realloc fails
PyDataMem_RENEW_freeonfail(m, ptr, size, r) ==
    LET original_ptr == get_original_pointer(m, ptr)
        m0 == realloc(m, original_ptr, get_aligned_size(size), r)
        m1 == IF r = NULL THEN free(m0, original_ptr) ELSE m0
        moved == r # NULL /\ r # original_ptr /\ m1.fault = "none"
        offset == ptr - original_ptr
        m2 == IF moved THEN align_pointer(m1, r) ELSE m1
        new_offset == aligned_address(r) - r
        m3 == IF moved /\ new_offset # offset
              THEN memmove(m2, aligned_address(r), r + offset, size)
              ELSE m2
        result == IF r = NULL \/ m1.fault # "none" THEN NULL
                  ELSE IF r = original_ptr THEN ptr
                  ELSE aligned_address(r)
    IN [m |-> CallHook(m3, ptr, result, size), ret |-> result]

\* PyDataMem_RENEW that does not store the new base when the block has moved
PyDataMem_RENEW_noheader(m, ptr, size, r) ==
    LET original_ptr == get_original_pointer(m, ptr)
        m1 == realloc(m, original_ptr, get_aligned_size(size), r)
        moved == r # NULL /\ r # original_ptr /\ m1.fault = "none"
        offset == ptr - original_ptr
        new_offset == aligned_address(r) - r
        m3 == IF moved /\ new_offset # offset
              THEN memmove(m1, aligned_address(r), r + offset, size)
              ELSE m1
        result == IF r = NULL \/ m1.fault # "none" THEN NULL
                  ELSE IF r = original_ptr THEN ptr
                  ELSE aligned_address(r)
    IN [m |-> CallHook(m3, ptr, result, size), ret |-> result]

\* PyDataMem_RENEW(ptr, size), realloc returning r
PyDataMem_RENEW(m, ptr, size, r) ==
    LET original_ptr == get_original_pointer(m, ptr)
        m1 == realloc(m, original_ptr, get_aligned_size(size), r)
        moved == r # NULL /\ r # original_ptr /\ m1.fault = "none"
        offset == ptr - original_ptr
        m2 == IF moved THEN align_pointer(m1, r) ELSE m1
        new_offset == aligned_address(r) - r
        m3 == IF moved /\ new_offset # offset
              THEN memmove(m2, aligned_address(r), r + offset, size)
              ELSE m2
        result == IF r = NULL \/ m1.fault # "none" THEN NULL
                  ELSE IF r = original_ptr THEN ptr
                  ELSE aligned_address(r)
    IN [m |-> CallHook(m3, ptr, result, size), ret |-> result]

\* PyArray_malloc as the bare system allocator: no alignment, no hook
PyArray_malloc_plain(m, size, b) == [m |-> malloc(m, size, b), ret |-> b]

\* PyArray_malloc(size) / PyArray_free(ptr): the allocator under the dimension
\* cache, the aligned allocator with its hook notification
PyArray_malloc(m, size, b) == PyDataMem_NEW(m, size, b)
PyArray_free(m, ptr) == PyDataMem_FREE(m, ptr)

\* (*alloc)(size) and (*dealloc)(p) through the function pointer handed to the
\* cache functions
CallAlloc(alloc, m, size, b) ==
    IF alloc = "PyDataMem_NEW" THEN PyDataMem_NEW(m, size, b)
    ELSE PyArray_malloc(m, size, b)
CallDealloc(dealloc, m, p) ==
    IF dealloc = "PyDataMem_FREE" THEN PyDataMem_FREE(m, p)
    ELSE PyArray_free(m, p)

\* ------------------------------------------------------------- block cache
\* A cache is the static array cache_bucket[msz].  Of a bucket the model keeps
\* `available` and ptrs[0 .. available - 1] (as ptrs[1 .. available]): the code
\* reads no entry at or above `available`.  The model stores the non-empty
\* buckets; every other bucket has available = 0, as static storage starts.
EmptyBucket == [available |-> 0, ptrs |-> <<>>]
Bucket(cache, n) == IF n \in DOMAIN cache THEN cache[n] ELSE EmptyBucket
SetBucket(cache, n, bk) ==
    [x \in IF bk.available = 0 THEN (DOMAIN cache) \ {n} ELSE (DOMAIN cache) \cup {n} |->
        IF x = n THEN bk ELSE cache[x]]

\* _npy_alloc_cache that never looks into the cache
npy_alloc_cache_base_nocache(m, nelem, esz, msz, cache, alloc, b) ==
    LET r == CallAlloc(alloc, m, Wrap(nelem * esz), b)
    IN [m |-> r.m, ret |-> r.ret, cache |-> cache]

\* _npy_alloc_cache that hands out the top entry and leaves it in the bucket
npy_alloc_cache_base_keep(m, nelem, esz, msz, cache, alloc, b) ==
    IF nelem < msz /\ Bucket(cache, nelem).available > 0
    THEN LET bk == Bucket(cache, nelem)
         IN [m |-> m, ret |-> bk.ptrs[bk.available], cache |-> cache]
    ELSE LET r == CallAlloc(alloc, m, Wrap(nelem * esz), b)
         IN [m |-> r.m, ret |-> r.ret, cache |-> cache]

\* _npy_alloc_cache that hands out the oldest entry of the bucket
npy_alloc_cache_base_fifo(m, nelem, esz, msz, cache, alloc, b) ==
    IF nelem < msz /\ Bucket(cache, nelem).available > 0
    THEN LET bk == Bucket(cache, nelem)
         IN [m |-> m,
             ret |-> bk.ptrs[1],
             cache |-> SetBucket(cache, nelem,
                                 [available |-> bk.available - 1,
                                  ptrs |-> SubSeq(bk.ptrs, 2, bk.available)])]
    ELSE LET r == CallAlloc(alloc, m, Wrap(nelem * esz), b)
         IN [m |-> r.m, ret |-> r.ret, cache |-> cache]

\* _npy_alloc_cache(nelem, esz, msz, cache, alloc), the allocator answering b
npy_alloc_cache_base(m, nelem, esz, msz, cache, alloc, b) ==
    IF nelem < msz /\ Bucket(cache, nelem).available > 0
    THEN LET bk == Bucket(cache, nelem)
         IN [m |-> m,
             ret |-> bk.ptrs[bk.available],
             cache |-> SetBucket(cache, nelem,
                                 [available |-> bk.available - 1,
                                  ptrs |-> SubSeq(bk.ptrs, 1, bk.available - 1)])]
    ELSE LET r == CallAlloc(alloc, m, Wrap(nelem * esz), b)
         IN [m |-> r.m, ret |-> r.ret, cache |-> cache]

\* _npy_free_cache that takes one block more than NCACHE
npy_free_cache_base_over(m, p, nelem, msz, cache, dealloc) ==
    IF p # NULL /\ nelem < msz /\ Bucket(cache, nelem).available <= NCACHE
    THEN LET bk == Bucket(cache, nelem)
         IN [m |-> m,
             cache |-> SetBucket(cache, nelem,
                                 [available |-> bk.available + 1,
                                  ptrs |-> Append(bk.ptrs, p)])]
    ELSE [m |-> CallDealloc(dealloc, m, p), cache |-> cache]

\* _npy_free_cache that forgets the block a full bucket cannot take
npy_free_cache_base_leak(m, p, nelem, msz, cache, dealloc) ==
    IF p # NULL /\ nelem < msz /\ Bucket(cache, nelem).available < NCACHE
    THEN LET bk == Bucket(cache, nelem)
         IN [m |-> m,
             cache |-> SetBucket(cache, nelem,
                                 [available |-> bk.available + 1,
                                  ptrs |-> Append(bk.ptrs, p)])]
    ELSE IF p # NULL /\ nelem < msz THEN [m |-> m, cache |-> cache]
    ELSE [m |-> CallDealloc(dealloc, m, p), cache |-> cache]

\* _npy_free_cache that does not test p
npy_free_cache_base_null(m, p, nelem, msz, cache, dealloc) ==
    IF nelem < msz /\ Bucket(cache, nelem).available < NCACHE
    THEN LET bk == Bucket(cache, nelem)
         IN [m |-> m,
             cache |-> SetBucket(cache, nelem,
                                 [available |-> bk.available + 1,
                                  ptrs |-> Append(bk.ptrs, p)])]
    ELSE [m |-> CallDealloc(dealloc, m, p), cache |-> cache]

\* _npy_free_cache that keeps a bucket for nelem = msz too
npy_free_cache_base_edge(m, p, nelem, msz, cache, dealloc) ==
    IF p # NULL /\ nelem <= msz /\ Bucket(cache, nelem).available < NCACHE
    THEN LET bk == Bucket(cache, nelem)
         IN [m |-> m,
             cache |-> SetBucket(cache, nelem,
                                 [available |-> bk.available + 1,
                                  ptrs |-> Append(bk.ptrs, p)])]
    ELSE [m |-> CallDealloc(dealloc, m, p), cache |-> cache]

\* _npy_free_cache(p, nelem, msz, cache, dealloc)
npy_free_cache_base(m, p, nelem, msz, cache, dealloc) ==
    IF p # NULL /\ nelem < msz /\ Bucket(cache, nelem).available < NCACHE
    THEN LET bk == Bucket(cache, nelem)
         IN [m |-> m,
             cache |-> SetBucket(cache, nelem,
                                 [available |-> bk.available + 1,
                                  ptrs |-> Append(bk.ptrs, p)])]
    ELSE [m |-> CallDealloc(dealloc, m, p), cache |-> cache]

\* the pointers _npy_clear_cache hands to dealloc, in its order: buckets
\* ascending, entries 0 .. available - 1 of each
RECURSIVE ClearOrder(_, _, _)
ClearOrder(cache, nelem, msz) ==
    LET left == {n \in DOMAIN cache : nelem <= n /\ n < msz /\ cache[n].available > 0}
    IN IF left = {} THEN <<>>
       ELSE LET n == CHOOSE x \in left : \A y \in left : x <= y
            IN SubSeq(cache[n].ptrs, 1, cache[n].available) \o ClearOrder(cache, n + 1, msz)

\* _npy_clear_cache that resets the buckets and releases nothing
npy_clear_cache_forget(m, msz, cache, dealloc) ==
    [m |-> m, cache |-> [n \in {x \in DOMAIN cache : x >= msz} |-> cache[n]]]

\* _npy_clear_cache that releases the blocks and leaves them in their buckets
npy_clear_cache_keep(m, msz, cache, dealloc) ==
    LET ps == ClearOrder(cache, 0, msz)
        after[k \in 0 .. Len(ps)] == IF k = 0 THEN m ELSE CallDealloc(dealloc, after[k - 1], ps[k])
    IN [m |-> after[Len(ps)], cache |-> cache]

\* _npy_clear_cache(msz, cache, dealloc)
npy_clear_cache(m, msz, cache, dealloc) ==
    LET ps == ClearOrder(cache, 0, msz)
        after[k \in 0 .. Len(ps)] == IF k = 0 THEN m ELSE CallDealloc(dealloc, after[k - 1], ps[k])
    IN [m |-> after[Len(ps)],
        cache |-> [n \in {x \in DOMAIN cache : x >= msz} |-> cache[n]]]

\* npy_alloc_cache(sz)
npy_alloc_cache(m, sz, b) ==
    npy_alloc_cache_base(m, sz, 1, NBUCKETS, datacache, "PyDataMem_NEW", b)

\* npy_free_cache(p, sz)
npy_free_cache(m, p, sz) ==
    npy_free_cache_base(m, p, sz, NBUCKETS, datacache, "PyDataMem_FREE")

\* the count taken as it comes
dim_clamp_none(sz) == sz

\* the count clamped to 1 instead of 2
dim_clamp_one(sz) == IF sz < 1 THEN 1 ELSE sz

\* the count npy_alloc_cache_dim / npy_free_cache_dim work with
dim_clamp(sz) == IF sz < 2 THEN 2 ELSE sz

\* npy_alloc_cache_dim(sz)
npy_alloc_cache_dim(m, sz, b) ==
    npy_alloc_cache_base(m, dim_clamp(sz), IntpSize, NBUCKETS_DIM, dimcache, "PyArray_malloc", b)

\* npy_free_cache_dim that takes the count as it comes
npy_free_cache_dim_noclamp(m, p, sz) ==
    npy_free_cache_base(m, p, sz, NBUCKETS_DIM, dimcache, "PyArray_free")

\* npy_free_cache_dim(p, sz)
npy_free_cache_dim(m, p, sz) ==
    npy_free_cache_base(m, p, dim_clamp(sz), NBUCKETS_DIM, dimcache, "PyArray_free")

\* npy_mul_with_overflow_intp(&size, a, b): whether a * b overflows the word
mul_with_overflow(a, b) == a # 0 /\ b > (WordMod - 1) \div a

\* a * b modulo 2^w, the partial products kept small
MulWrap(a, b) == (a * (b % 256) + 256 * ((a * (b \div 256)) % WordMod)) % WordMod

\* PyDataMem_NEW_ZEROED that allocates the wrapped product
PyDataMem_NEW_ZEROED_nocheck(m, nelems, elsize, b) ==
    LET size == MulWrap(nelems, elsize)
        m1 == calloc(m, get_aligned_size(size), b)
        m2 == IF b # NULL THEN align_pointer(m1, b) ELSE m1
        result == IF b # NULL THEN aligned_address(b) ELSE NULL
    IN [m |-> CallHook(m2, NULL, result, size), ret |-> result]

\* PyDataMem_NEW_ZEROED(nelems, elsize), calloc returning b
PyDataMem_NEW_ZEROED(m, nelems, elsize, b) ==
    LET ovf == mul_with_overflow(nelems, elsize)
        size == MulWrap(nelems, elsize)
        m1 == IF ovf THEN m ELSE calloc(m, get_aligned_size(size), b)
        ok == ~ovf /\ b # NULL
        m2 == IF ok THEN align_pointer(m1, b) ELSE m1
        result == IF ok THEN aligned_address(b) ELSE NULL
    IN [m |-> CallHook(m2, NULL, result, MulWrap(nelems, elsize)), ret |-> result]

\* npy_alloc_cache_zero that leaves a block from the cache as it is
npy_alloc_cache_zero_nomemset(m, sz, b) ==
    IF sz < NBUCKETS
    THEN npy_alloc_cache_base(m, sz, 1, NBUCKETS, datacache, "PyDataMem_NEW", b)
    ELSE LET r == PyDataMem_NEW_ZEROED(m, sz, 1, b)
         IN [m |-> r.m, ret |-> r.ret, cache |-> datacache]

\* npy_alloc_cache_zero(sz)
npy_alloc_cache_zero(m, sz, b) ==
    IF sz < NBUCKETS
    THEN LET r == npy_alloc_cache_base(m, sz, 1, NBUCKETS, datacache, "PyDataMem_NEW", b)
         IN IF r.ret # NULL THEN [r EXCEPT !.m = memset0(r.m, r.ret, sz)] ELSE r
    ELSE LET r == PyDataMem_NEW_ZEROED(m, sz, 1, b)
         IN [m |-> r.m, ret |-> r.ret, cache |-> datacache]

\* ------------------------------------------------------------------ inputs
DataSizes == {SmallSz, NBUCKETS}
DimCounts == {0, 1, 2, NBUCKETS_DIM}
AlignValues == {MIN_ALIGN \div 2, MIN_ALIGN, MIN_ALIGN + 8, 2 * MIN_ALIGN}
AlignRequests == {0} \cup AlignValues
\* element counts and element sizes asked of PyDataMem_NEW_ZEROED: the pairs
\* whose product overflows the word, and those whose product is a size the
\* system allocator has room for
ZeroCounts == {0, 1, 3, 256, WordMod \div 256, WordMod \div 2, WordMod - 1}
ZeroPairs ==
    {pr \in ZeroCounts \X ZeroCounts :
        mul_with_overflow(pr[1], pr[2]) \/ MulWrap(pr[1], pr[2]) <= NBUCKETS}
\* the (hook, user_data) pairs callers register
HookPairs == {<<NULL, 0>>, <<1, 11>>, <<2, 12>>}

Call(op, arg, n, ret, m, pre) ==
    [op |-> op, arg |-> arg, n |-> n, ret |-> ret,
     calls |-> m.calls, hooks |-> m.hooks, pre |-> pre]

Block(p, sz, kind) == [p |-> p, sz |-> sz, kind |-> kind]

Commit(m) ==
    /\ heap' = m.heap
    /\ mem' = m.mem
    /\ fault' = m.fault

\* the concurrent callers
Threads == {1, 2}
\* calls one thread makes in a run
MaxCalls == 2
NoThread == 0
\* a thread between two calls: no call running, nothing held
IdleThread ==
    [pc |-> "idle", p |-> NULL, n |-> 0, tmp |-> 0, ret |-> NULL, own |-> {}, seen |-> <<>>,
     k |-> 0, fn |-> NULL, arg |-> <<>>, mask |-> 0]
\* static cache_bucket: available = 0, ptrs all NULL
ZeroBucket == [available |-> 0, ptrs |-> [i \in 0 .. (NCACHE - 1) |-> NULL]]

\* ------------------------------------------------------------------- Init
Init ==
    /\ thr = [t \in Threads |-> IdleThread]
    /\ gil = NoThread
    /\ slots = ZeroBucket
    /\ fenv_flags = 0
    /\ heap = <<>>
    /\ mem = <<>>
    /\ datacache = <<>>
    /\ dimcache = <<>>
    /\ datamem_align = MIN_ALIGN
    /\ datamem_align_mask = MIN_ALIGN - 1
    /\ eventhook = NULL
    /\ eventhook_user_data = NULL
    /\ held = {}
    /\ last = [op |-> "init", arg |-> NULL, n |-> 0, ret |-> NULL,
               calls |-> <<>>, hooks |-> <<>>, pre |-> <<>>]
    /\ fault = "none"

\* ---------------------------------------------------------------- actions
\* a caller allocates sz bytes of array data.  last.pre = <<A>> when the two
\* calls before were an allocation of sz bytes that returned A and the free of
\* A with sz
AllocData(sz, b) ==
    /\ LET r == npy_alloc_cache(Machine, sz, b)
       IN   /\ Commit(r.m)
            /\ datacache' = r.cache
            /\ held' = IF r.ret # NULL THEN held \cup {Block(r.ret, sz, "data")} ELSE held
            /\ last' = Call("alloc_data", NULL, sz, r.ret, r.m,
                             IF last.op = "free_data" /\ last.n = sz THEN last.pre ELSE <<>>)
    /\ UNCHANGED <<dimcache, datamem_align, datamem_align_mask, eventhook, eventhook_user_data>>

\* a caller allocates sz zeroed bytes of array data.  last.pre = <<the byte the
\* returned block started with before the call>>
AllocDataZero(sz, b) ==
    /\ LET r == npy_alloc_cache_zero(Machine, sz, b)
       IN   /\ Commit(r.m)
            /\ datacache' = r.cache
            /\ held' = IF r.ret # NULL THEN held \cup {Block(r.ret, sz, "data")} ELSE held
            /\ last' = Call("alloc_zero", NULL, sz, r.ret, r.m,
                             IF r.ret # NULL THEN <<Byte(Machine, r.ret)>> ELSE <<>>)
    /\ UNCHANGED <<dimcache, datamem_align, datamem_align_mask, eventhook, eventhook_user_data>>

\* a caller frees a data block it holds, with the size it holds it at.
\* last.pre = <<blk.p>> when the call before was the allocation that returned it
FreeData(blk) ==
    /\ blk.kind = "data"
    /\ LET r == npy_free_cache(Machine, blk.p, blk.sz)
       IN /\ Commit(r.m)
          /\ datacache' = r.cache
          /\ held' = held \ {blk}
          /\ last' = Call("free_data", blk.p, blk.sz, NULL, r.m,
                           IF last.op = "alloc_data" /\ last.ret = blk.p /\ last.n = blk.sz
                           THEN <<blk.p>> ELSE <<>>)
    /\ UNCHANGED <<dimcache, datamem_align, datamem_align_mask, eventhook, eventhook_user_data>>

\* a caller allocates room for sz dimensions / strides
AllocDim(sz, b) ==
    /\ LET r == npy_alloc_cache_dim(Machine, sz, b)
       IN   /\ Commit(r.m)
            /\ dimcache' = r.cache
            /\ held' = IF r.ret # NULL THEN held \cup {Block(r.ret, sz, "dim")} ELSE held
            /\ last' = Call("alloc_dim", NULL, sz, r.ret, r.m, <<>>)
    /\ UNCHANGED <<datacache, datamem_align, datamem_align_mask, eventhook, eventhook_user_data>>

\* the counts a caller may pass when it frees a dimension block obtained with
\* count sz: the same count, or any count that clamps to the same one
DimFreeCounts(sz) == {c \in DimCounts : dim_clamp(c) = dim_clamp(sz)}

\* a caller frees a dimension block it holds
FreeDim(blk, sz) ==
    /\ blk.kind = "dim"
    /\ sz \in DimFreeCounts(blk.sz)
    /\ LET r == npy_free_cache_dim(Machine, blk.p, sz)
       IN /\ Commit(r.m)
          /\ dimcache' = r.cache
          /\ held' = held \ {blk}
          /\ last' = Call("free_dim", blk.p, sz, NULL, r.m, <<>>)
    /\ UNCHANGED <<datacache, datamem_align, datamem_align_mask, eventhook, eventhook_user_data>>

\* the bytes at offsets [0, n) of the block at p: those stored, by offset, and
\* the number of leading offsets inside a zero-filled prefix
Payload(m, p, n) ==
    LET stored == {a \in DOMAIN m.mem : p <= a /\ a < p + n}
        zends == {b + m.heap[b].zero - p : b \in {x \in DOMAIN m.heap : x <= p /\ p < x + m.heap[x].zero}}
    IN [bytes |-> [i \in {a - p : a \in stored} |-> m.mem[p + i]],
        zero |-> IF zends = {} THEN 0 ELSE Min(n, CHOOSE z \in zends : TRUE)]

\* a caller resizes a data block it holds to size bytes, realloc answering r
Renew(blk, size, r) ==
    /\ blk.kind = "data"
    /\ LET res == PyDataMem_RENEW(Machine, blk.p, size, r)
       IN   /\ Commit(res.m)
            /\ held' = IF res.ret # NULL
                       THEN (held \ {blk}) \cup {Block(res.ret, size, "data")}
                       ELSE held
            /\ last' = Call("renew", blk.p, size, res.ret, res.m,
                            Payload(Machine, blk.p, Min(blk.sz, size)))
    /\ UNCHANGED <<datacache, dimcache, datamem_align, datamem_align_mask,
                   eventhook, eventhook_user_data>>

\* a caller writes the leading bytes of a data block it holds
Fill(blk) ==
    /\ blk.kind = "data"
    /\ LET n == Min(blk.sz, MaxFill)
       IN IF InBounds(heap, blk.p, n)
          THEN /\ mem' = Overwrite(Machine, blk.p, n,
                                   [a \in Range(blk.p, n) |-> Pat(a - blk.p)]).mem
               /\ fault' = fault
          ELSE /\ mem' = mem
               /\ fault' = "oob_write"
    /\ last' = [op |-> "fill", arg |-> blk.p, n |-> blk.sz, ret |-> NULL,
                calls |-> <<>>, hooks |-> <<>>, pre |-> <<>>]
    /\ UNCHANGED <<heap, datacache, dimcache, datamem_align, datamem_align_mask,
                   eventhook, eventhook_user_data, held>>

\* npy_datamem_get_align()
npy_datamem_get_align == datamem_align

\* npy_datamem_set_align without the power-of-two test
SetAlign_anysize(align) ==
    LET align_mask == Wrap(align - 1)
        bad == align < MIN_ALIGN
        r == IF ~bad /\ align > datamem_align
             THEN npy_clear_cache(Machine, NBUCKETS, datacache, "PyDataMem_FREE")
             ELSE [m |-> Machine, cache |-> datacache]
    IN /\ Commit(r.m)
       /\ datacache' = r.cache
       /\ datamem_align' = IF bad THEN datamem_align ELSE align
       /\ datamem_align_mask' = IF bad THEN datamem_align_mask ELSE align_mask
       /\ last' = Call("set_align", align, datamem_align, IF bad THEN -1 ELSE 0, r.m, <<>>)
       /\ UNCHANGED <<dimcache, eventhook, eventhook_user_data, held>>

\* npy_datamem_set_align that purges whenever it succeeds
SetAlign_eager(align) ==
    LET align_mask == Wrap(align - 1)
        bad == \/ align < MIN_ALIGN
               \/ BitXor(align, align_mask) # BitOr(align, align_mask)
        r == IF ~bad
             THEN npy_clear_cache(Machine, NBUCKETS, datacache, "PyDataMem_FREE")
             ELSE [m |-> Machine, cache |-> datacache]
    IN /\ Commit(r.m)
       /\ datacache' = r.cache
       /\ datamem_align' = IF bad THEN datamem_align ELSE align
       /\ datamem_align_mask' = IF bad THEN datamem_align_mask ELSE align_mask
       /\ last' = Call("set_align", align, datamem_align, IF bad THEN -1 ELSE 0, r.m, <<>>)
       /\ UNCHANGED <<dimcache, eventhook, eventhook_user_data, held>>

\* npy_datamem_set_align without the test against MIN_ALIGN
SetAlign_nomin(align) ==
    LET align_mask == Wrap(align - 1)
        bad == BitXor(align, align_mask) # BitOr(align, align_mask)
        r == IF ~bad /\ align > datamem_align
             THEN npy_clear_cache(Machine, NBUCKETS, datacache, "PyDataMem_FREE")
             ELSE [m |-> Machine, cache |-> datacache]
    IN /\ Commit(r.m)
       /\ datacache' = r.cache
       /\ datamem_align' = IF bad THEN datamem_align ELSE align
       /\ datamem_align_mask' = IF bad THEN datamem_align_mask ELSE align_mask
       /\ last' = Call("set_align", align, datamem_align, IF bad THEN -1 ELSE 0, r.m, <<>>)
       /\ UNCHANGED <<dimcache, eventhook, eventhook_user_data, held>>

\* npy_datamem_set_align(align)
SetAlign(align) ==
    LET align_mask == Wrap(align - 1)
        bad == \/ align < MIN_ALIGN
               \/ BitXor(align, align_mask) # BitOr(align, align_mask)
        r == IF ~bad /\ align > datamem_align
             THEN npy_clear_cache(Machine, NBUCKETS, datacache, "PyDataMem_FREE")
             ELSE [m |-> Machine, cache |-> datacache]
    IN /\ Commit(r.m)
       /\ datacache' = r.cache
       /\ datamem_align' = IF bad THEN datamem_align ELSE align
       /\ datamem_align_mask' = IF bad THEN datamem_align_mask ELSE align_mask
       /\ last' = Call("set_align", align, datamem_align, IF bad THEN -1 ELSE 0, r.m, <<>>)
       /\ UNCHANGED <<dimcache, eventhook, eventhook_user_data, held>>

\* PyDataMem_SetEventHook that stores user_data before it copies the old one
SetEventHook_late(newhook, user_data, with_old) ==
    /\ eventhook' = newhook
    /\ eventhook_user_data' = user_data
    /\ last' = [op |-> "set_hook", arg |-> newhook, n |-> user_data, ret |-> eventhook,
                calls |-> <<>>, hooks |-> <<>>,
                pre |-> IF with_old THEN <<user_data>> ELSE <<>>]
    /\ UNCHANGED <<heap, mem, datacache, dimcache, datamem_align, datamem_align_mask,
                   held, fault>>

\* PyDataMem_SetEventHook(newhook, user_data, old_data); with_old: old_data != NULL
SetEventHook(newhook, user_data, with_old) ==
    /\ eventhook' = newhook
    /\ eventhook_user_data' = user_data
    /\ last' = [op |-> "set_hook", arg |-> newhook, n |-> user_data, ret |-> eventhook,
                calls |-> <<>>, hooks |-> <<>>,
                pre |-> IF with_old THEN <<eventhook_user_data>> ELSE <<>>]
    /\ UNCHANGED <<heap, mem, datacache, dimcache, datamem_align, datamem_align_mask,
                   held, fault>>

\* a caller asks PyDataMem_NEW_ZEROED for nelems elements of elsize bytes
NewZeroed(nelems, elsize, b) ==
    /\ LET r == PyDataMem_NEW_ZEROED(Machine, nelems, elsize, b)
       IN   /\ Commit(r.m)
            /\ held' = IF r.ret # NULL
                       THEN held \cup {Block(r.ret, MulWrap(nelems, elsize), "raw")}
                       ELSE held
            /\ last' = Call("new_zeroed", nelems, elsize, r.ret, r.m, <<>>)
    /\ UNCHANGED <<datacache, dimcache, datamem_align, datamem_align_mask,
                   eventhook, eventhook_user_data>>

\* a caller asks PyDataMem_NEW for size bytes, malloc answering b
NewRaw(size, b) ==
    /\ LET r == PyDataMem_NEW(Machine, size, b)
       IN   /\ Commit(r.m)
            /\ held' = IF r.ret # NULL THEN held \cup {Block(r.ret, size, "raw")} ELSE held
            /\ last' = Call("new", NULL, size, r.ret, r.m, <<>>)
    /\ UNCHANGED <<datacache, dimcache, datamem_align, datamem_align_mask,
                   eventhook, eventhook_user_data>>

\* a caller hands a block of PyDataMem_NEW / PyDataMem_NEW_ZEROED to PyDataMem_FREE
FreeRaw(blk) ==
    /\ blk.kind = "raw"
    /\ LET m == PyDataMem_FREE(Machine, blk.p)
       IN /\ Commit(m)
          /\ last' = Call("free_raw", blk.p, blk.sz, NULL, m, <<>>)
    /\ held' = held \ {blk}
    /\ UNCHANGED <<datacache, dimcache, datamem_align, datamem_align_mask,
                   eventhook, eventhook_user_data>>

\* a caller passes NULL to npy_free_cache
FreeDataNull(sz) ==
    /\ LET r == npy_free_cache(Machine, NULL, sz)
       IN /\ Commit(r.m)
          /\ datacache' = r.cache
          /\ last' = Call("free_data", NULL, sz, NULL, r.m, <<>>)
    /\ UNCHANGED <<dimcache, datamem_align, datamem_align_mask, eventhook,
                   eventhook_user_data, held>>

\* a caller passes NULL to npy_free_cache_dim
FreeDimNull(sz) ==
    /\ LET r == npy_free_cache_dim(Machine, NULL, sz)
       IN /\ Commit(r.m)
          /\ dimcache' = r.cache
          /\ last' = Call("free_dim", NULL, sz, NULL, r.m, <<>>)
    /\ UNCHANGED <<datacache, datamem_align, datamem_align_mask, eventhook,
                   eventhook_user_data, held>>

\* the base of the system allocation a held block lives in
BaseOf(blk) == get_original_pointer(Machine, blk.p)

\* ------------------------------------------------- concurrent cache calls
\* Two threads call npy_alloc_cache / npy_free_cache with nothing serialising
\* them.  The bucket of the size class they share is `slots`; each load and
\* each store of the bucket is a step of its own.
\* thr[t].own: the blocks <<p, sz>> thread t holds.
RaceSizes == {SmallSz, NBUCKETS}
RaceUnchanged ==
    UNCHANGED <<datacache, dimcache, datamem_align, datamem_align_mask,
                eventhook, eventhook_user_data, held, last, gil, fenv_flags>>

\* a thread enters npy_alloc_cache(sz)
RaceCallAlloc(t, sz) ==
    /\ thr[t].pc = "idle"
    /\ thr[t].k < MaxCalls
    /\ thr' = [thr EXCEPT ![t].pc = "a_test", ![t].n = sz, ![t].ret = NULL, ![t].k = @ + 1]
    /\ UNCHANGED <<heap, mem, fault, slots>> /\ RaceUnchanged

\* if (nelem < msz) { if (cache[nelem].available > 0)
RaceAllocTest(t) ==
    /\ thr[t].pc = "a_test"
    /\ thr' = [thr EXCEPT ![t].pc =
                  IF thr[t].n < NBUCKETS /\ slots.available > 0 THEN "a_load" ELSE "a_miss"]
    /\ UNCHANGED <<heap, mem, fault, slots>> /\ RaceUnchanged

\* --(cache[nelem].available): the load
RaceAllocLoad(t) ==
    /\ thr[t].pc = "a_load"
    /\ thr' = [thr EXCEPT ![t].pc = "a_store", ![t].tmp = slots.available]
    /\ UNCHANGED <<heap, mem, fault, slots>> /\ RaceUnchanged

\* --(cache[nelem].available): the store
RaceAllocStore(t) ==
    /\ thr[t].pc = "a_store"
    /\ slots' = [slots EXCEPT !.available = Wrap(thr[t].tmp - 1)]
    /\ thr' = [thr EXCEPT ![t].pc = "a_read", ![t].tmp = Wrap(thr[t].tmp - 1)]
    /\ UNCHANGED <<heap, mem, fault>> /\ RaceUnchanged

\* return cache[nelem].ptrs[...]
RaceAllocRead(t) ==
    /\ thr[t].pc = "a_read"
    /\ IF thr[t].tmp < NCACHE
       THEN /\ thr' = [thr EXCEPT ![t].pc = "idle",
                                 ![t].ret = slots.ptrs[thr[t].tmp],
                                 ![t].own = @ \cup {<<slots.ptrs[thr[t].tmp], thr[t].n>>}]
            /\ fault' = fault
       ELSE /\ thr' = [thr EXCEPT ![t].pc = "idle"]
            /\ fault' = "oob_read"
    /\ UNCHANGED <<heap, mem, slots>> /\ RaceUnchanged

\* return alloc(nelem * esz), malloc answering b
RaceAllocMiss(t, b) ==
    /\ thr[t].pc = "a_miss"
    /\ LET r == PyDataMem_NEW(Machine, thr[t].n, b)
       IN /\ Commit(r.m)
          /\ thr' = [thr EXCEPT ![t].pc = "idle", ![t].ret = r.ret,
                               ![t].own = IF r.ret # NULL
                                          THEN @ \cup {<<r.ret, thr[t].n>>} ELSE @]
    /\ UNCHANGED slots /\ RaceUnchanged

\* a thread enters npy_free_cache(p, sz) with a block it holds
RaceCallFree(t, blk) ==
    /\ thr[t].pc = "idle"
    /\ blk \in thr[t].own
    /\ thr[t].k < MaxCalls
    /\ thr' = [thr EXCEPT ![t].pc = "f_test", ![t].p = blk[1], ![t].n = blk[2],
                         ![t].own = @ \ {blk}, ![t].k = @ + 1]
    /\ UNCHANGED <<heap, mem, fault, slots>> /\ RaceUnchanged

\* if (p != NULL && nelem < msz) { if (cache[nelem].available < NCACHE)
RaceFreeTest(t) ==
    /\ thr[t].pc = "f_test"
    /\ thr' = [thr EXCEPT ![t].pc =
                  IF thr[t].p # NULL /\ thr[t].n < NBUCKETS /\ slots.available < NCACHE
                  THEN "f_load" ELSE "f_dealloc"]
    /\ UNCHANGED <<heap, mem, fault, slots>> /\ RaceUnchanged

\* cache[nelem].available++: the load
RaceFreeLoad(t) ==
    /\ thr[t].pc = "f_load"
    /\ thr' = [thr EXCEPT ![t].pc = "f_store", ![t].tmp = slots.available]
    /\ UNCHANGED <<heap, mem, fault, slots>> /\ RaceUnchanged

\* cache[nelem].available++: the store
RaceFreeStore(t) ==
    /\ thr[t].pc = "f_store"
    /\ slots' = [slots EXCEPT !.available = Wrap(thr[t].tmp + 1)]
    /\ thr' = [thr EXCEPT ![t].pc = "f_write"]
    /\ UNCHANGED <<heap, mem, fault>> /\ RaceUnchanged

\* cache[nelem].ptrs[...] = p; return
RaceFreeWrite(t) ==
    /\ thr[t].pc = "f_write"
    /\ IF thr[t].tmp < NCACHE
       THEN /\ slots' = [slots EXCEPT !.ptrs[thr[t].tmp] = thr[t].p]
            /\ fault' = fault
       ELSE /\ slots' = slots
            /\ fault' = "oob_write"
    /\ thr' = [thr EXCEPT ![t].pc = "idle"]
    /\ UNCHANGED <<heap, mem>> /\ RaceUnchanged

\* the same statement compiled with the store to the slot first
RaceFreeWriteFirst(t) ==
    /\ thr[t].pc = "f_store"
    /\ IF thr[t].tmp < NCACHE
       THEN /\ slots' = [slots EXCEPT !.ptrs[thr[t].tmp] = thr[t].p]
            /\ fault' = fault
       ELSE /\ slots' = slots
            /\ fault' = "oob_write"
    /\ thr' = [thr EXCEPT ![t].pc = "f_count"]
    /\ UNCHANGED <<heap, mem>> /\ RaceUnchanged

\* ... and the store to available last; return
RaceFreeStoreLast(t) ==
    /\ thr[t].pc = "f_count"
    /\ slots' = [slots EXCEPT !.available = Wrap(thr[t].tmp + 1)]
    /\ thr' = [thr EXCEPT ![t].pc = "idle"]
    /\ UNCHANGED <<heap, mem, fault>> /\ RaceUnchanged

\* dealloc(p)
RaceFreeDealloc(t) ==
    /\ thr[t].pc = "f_dealloc"
    /\ Commit(PyDataMem_FREE(Machine, thr[t].p))
    /\ thr' = [thr EXCEPT ![t].pc = "idle"]
    /\ UNCHANGED slots /\ RaceUnchanged

\* ------------------------------------------ concurrent PyDataMem_NEW calls
\* NPY_ALLOW_C_API / NPY_DISABLE_C_API: the calling thread takes / gives up
\* the interpreter lock
NPY_ALLOW_C_API(t) == gil = NoThread /\ gil' = t
NPY_DISABLE_C_API(t) == gil' = NoThread

NewUnchanged == UNCHANGED <<datacache, dimcache, held, last, slots, fenv_flags>>

\* a thread enters PyDataMem_NEW(size)
NewCall(t, size) ==
    /\ thr[t].pc = "idle"
    /\ thr[t].k < MaxCalls
    /\ thr' = [thr EXCEPT ![t].pc = "n_size", ![t].n = size, ![t].ret = NULL,
                         ![t].k = @ + 1]
    /\ UNCHANGED <<heap, mem, fault, gil, eventhook, eventhook_user_data,
                   datamem_align, datamem_align_mask>> /\ NewUnchanged

\* get_aligned_size(size)
NewSize(t) ==
    /\ thr[t].pc = "n_size"
    /\ thr' = [thr EXCEPT ![t].pc = "n_malloc", ![t].tmp = get_aligned_size(thr[t].n)]
    /\ UNCHANGED <<heap, mem, fault, gil, eventhook, eventhook_user_data,
                   datamem_align, datamem_align_mask>> /\ NewUnchanged

\* result = malloc(...), malloc answering b
NewMalloc(t, b) ==
    /\ thr[t].pc = "n_malloc"
    /\ Commit(malloc(Machine, thr[t].tmp, b))
    /\ thr' = [thr EXCEPT ![t].pc = IF b # NULL THEN "n_align" ELSE "h_test1",
                         ![t].p = b]
    /\ UNCHANGED <<gil, eventhook, eventhook_user_data,
                   datamem_align, datamem_align_mask>> /\ NewUnchanged

\* result = align_pointer(result)
NewAlign(t) ==
    /\ thr[t].pc = "n_align"
    /\ Commit(align_pointer(Machine, thr[t].p))
    /\ thr' = [thr EXCEPT ![t].pc = "h_test1", ![t].ret = aligned_address(thr[t].p),
                         ![t].mask = datamem_align_mask]
    /\ UNCHANGED <<gil, eventhook, eventhook_user_data,
                   datamem_align, datamem_align_mask>> /\ NewUnchanged

\* what the caller is left with when PyDataMem_NEW returns
Returned(t) ==
    [thr[t] EXCEPT !.pc = "idle",
                   !.own = IF thr[t].ret # NULL THEN @ \cup {<<thr[t].ret, thr[t].n>>} ELSE @]

\* if (_PyDataMem_eventhook != NULL), outside the lock
HookTest1(t) ==
    /\ thr[t].pc = "h_test1"
    /\ thr' = [thr EXCEPT ![t] = IF eventhook # NULL THEN [@ EXCEPT !.pc = "h_lock"]
                                 ELSE Returned(t)]
    /\ UNCHANGED <<heap, mem, fault, gil, eventhook, eventhook_user_data,
                   datamem_align, datamem_align_mask>> /\ NewUnchanged

\* the invoker that goes on without the lock
HookLock_skip(t) ==
    /\ thr[t].pc = "h_lock"
    /\ thr' = [thr EXCEPT ![t].pc = "h_test2"]
    /\ UNCHANGED <<heap, mem, fault, gil, eventhook, eventhook_user_data,
                   datamem_align, datamem_align_mask>> /\ NewUnchanged

\* NPY_ALLOW_C_API
HookLock(t) ==
    /\ thr[t].pc = "h_lock"
    /\ NPY_ALLOW_C_API(t)
    /\ thr' = [thr EXCEPT ![t].pc = "h_test2"]
    /\ UNCHANGED <<heap, mem, fault, eventhook, eventhook_user_data,
                   datamem_align, datamem_align_mask>> /\ NewUnchanged

\* the invoker that does not test the callback again inside the lock
HookTest2_skip(t) ==
    /\ thr[t].pc = "h_test2"
    /\ thr' = [thr EXCEPT ![t].pc = "h_fn"]
    /\ UNCHANGED <<heap, mem, fault, gil, eventhook, eventhook_user_data,
                   datamem_align, datamem_align_mask>> /\ NewUnchanged

\* if (_PyDataMem_eventhook != NULL), inside the lock
HookTest2(t) ==
    /\ thr[t].pc = "h_test2"
    /\ thr' = [thr EXCEPT ![t].pc = IF eventhook # NULL THEN "h_fn" ELSE "h_unlock"]
    /\ UNCHANGED <<heap, mem, fault, gil, eventhook, eventhook_user_data,
                   datamem_align, datamem_align_mask>> /\ NewUnchanged

\* (*_PyDataMem_eventhook): the load of the callback
HookReadFn(t) ==
    /\ thr[t].pc = "h_fn"
    /\ thr' = [thr EXCEPT ![t].pc = "h_call", ![t].fn = eventhook]
    /\ UNCHANGED <<heap, mem, fault, gil, eventhook, eventhook_user_data,
                   datamem_align, datamem_align_mask>> /\ NewUnchanged

\* (...)(NULL, result, size, _PyDataMem_eventhook_user_data): the call
HookCall(t) ==
    /\ thr[t].pc = "h_call"
    /\ thr' = [thr EXCEPT ![t].pc = "h_unlock",
                         ![t].seen = Append(@, <<thr[t].fn, NULL, thr[t].ret, thr[t].n,
                                                 eventhook_user_data>>)]
    /\ UNCHANGED <<heap, mem, fault, gil, eventhook, eventhook_user_data,
                   datamem_align, datamem_align_mask>> /\ NewUnchanged

\* NPY_DISABLE_C_API; return result
HookUnlock(t) ==
    /\ thr[t].pc = "h_unlock"
    /\ NPY_DISABLE_C_API(t)
    /\ thr' = [thr EXCEPT ![t] = Returned(t)]
    /\ UNCHANGED <<heap, mem, fault, eventhook, eventhook_user_data,
                   datamem_align, datamem_align_mask>> /\ NewUnchanged

\* ---------------------------------------- concurrent PyDataMem_SetEventHook
\* a thread enters PyDataMem_SetEventHook(newhook, user_data, old_data)
SetHookCall(t, newhook, user_data, with_old) ==
    /\ thr[t].pc = "idle"
    /\ thr[t].k < MaxCalls
    /\ thr' = [thr EXCEPT ![t].pc = "s_lock", ![t].arg = <<newhook, user_data, with_old>>,
                         ![t].k = @ + 1]
    /\ UNCHANGED <<heap, mem, fault, gil, eventhook, eventhook_user_data,
                   datamem_align, datamem_align_mask>> /\ NewUnchanged

\* NPY_ALLOW_C_API
SetHookLock(t) ==
    /\ thr[t].pc = "s_lock"
    /\ NPY_ALLOW_C_API(t)
    /\ thr' = [thr EXCEPT ![t].pc = "s_temp"]
    /\ UNCHANGED <<heap, mem, fault, eventhook, eventhook_user_data,
                   datamem_align, datamem_align_mask>> /\ NewUnchanged

\* temp = _PyDataMem_eventhook
SetHookTemp(t) ==
    /\ thr[t].pc = "s_temp"
    /\ thr' = [thr EXCEPT ![t].pc = "s_hook", ![t].tmp = eventhook]
    /\ UNCHANGED <<heap, mem, fault, gil, eventhook, eventhook_user_data,
                   datamem_align, datamem_align_mask>> /\ NewUnchanged

\* _PyDataMem_eventhook = newhook
SetHookStore(t) ==
    /\ thr[t].pc = "s_hook"
    /\ eventhook' = thr[t].arg[1]
    /\ thr' = [thr EXCEPT ![t].pc = "s_old"]
    /\ UNCHANGED <<heap, mem, fault, gil, eventhook_user_data,
                   datamem_align, datamem_align_mask>> /\ NewUnchanged

\* if (old_data != NULL) *old_data = _PyDataMem_eventhook_user_data
SetHookOld(t) ==
    /\ thr[t].pc = "s_old"
    /\ thr' = [thr EXCEPT ![t].pc = "s_ud",
                         ![t].p = IF thr[t].arg[3] THEN eventhook_user_data ELSE @]
    /\ UNCHANGED <<heap, mem, fault, gil, eventhook, eventhook_user_data,
                   datamem_align, datamem_align_mask>> /\ NewUnchanged

\* _PyDataMem_eventhook_user_data = user_data
SetHookUd(t) ==
    /\ thr[t].pc = "s_ud"
    /\ eventhook_user_data' = thr[t].arg[2]
    /\ thr' = [thr EXCEPT ![t].pc = "s_unlock"]
    /\ UNCHANGED <<heap, mem, fault, gil, eventhook,
                   datamem_align, datamem_align_mask>> /\ NewUnchanged

\* NPY_DISABLE_C_API; return temp
SetHookUnlock(t) ==
    /\ thr[t].pc = "s_unlock"
    /\ NPY_DISABLE_C_API(t)
    /\ thr' = [thr EXCEPT ![t].pc = "idle", ![t].ret = thr[t].tmp]
    /\ UNCHANGED <<heap, mem, fault, eventhook, eventhook_user_data,
                   datamem_align, datamem_align_mask>> /\ NewUnchanged

\* ----------------------------------------- concurrent npy_datamem_set_align
\* a thread enters npy_datamem_set_align(align)
SetAlignCall(t, align) ==
    /\ thr[t].pc = "idle"
    /\ thr[t].k < MaxCalls
    /\ thr' = [thr EXCEPT ![t].pc = "sa_check", ![t].arg = <<align, Wrap(align - 1)>>,
                         ![t].k = @ + 1]
    /\ UNCHANGED <<heap, mem, fault, gil, eventhook, eventhook_user_data,
                   datamem_align, datamem_align_mask>> /\ NewUnchanged

\* the two tests of align, and the purge when align > datamem_align
SetAlignCheck(t) ==
    /\ thr[t].pc = "sa_check"
    /\ LET align == thr[t].arg[1]
           align_mask == thr[t].arg[2]
           bad == \/ align < MIN_ALIGN
                  \/ BitXor(align, align_mask) # BitOr(align, align_mask)
           r == IF ~bad /\ align > datamem_align
                THEN npy_clear_cache(Machine, NBUCKETS, datacache, "PyDataMem_FREE")
                ELSE [m |-> Machine, cache |-> datacache]
       IN /\ Commit(r.m)
          /\ datacache' = r.cache
          /\ thr' = [thr EXCEPT ![t].pc = IF bad THEN "idle" ELSE "sa_align",
                               ![t].ret = IF bad THEN -1 ELSE @]
    /\ UNCHANGED <<gil, eventhook, eventhook_user_data, datamem_align, datamem_align_mask,
                   dimcache, held, last, slots, fenv_flags>>

\* datamem_align = align
SetAlignStore(t) ==
    /\ thr[t].pc = "sa_align"
    /\ datamem_align' = thr[t].arg[1]
    /\ thr' = [thr EXCEPT ![t].pc = "sa_mask"]
    /\ UNCHANGED <<heap, mem, fault, gil, eventhook, eventhook_user_data,
                   datamem_align_mask>> /\ NewUnchanged

\* datamem_align_mask = align_mask; return 0
SetAlignMask(t) ==
    /\ thr[t].pc = "sa_mask"
    /\ datamem_align_mask' = thr[t].arg[2]
    /\ thr' = [thr EXCEPT ![t].pc = "idle", ![t].ret = 0]
    /\ UNCHANGED <<heap, mem, fault, gil, eventhook, eventhook_user_data,
                   datamem_align>> /\ NewUnchanged

\* ------------------------------------------- the loops of _npy_clear_cache
\* npy_datamem_set_align(align) with _npy_clear_cache(NBUCKETS, datacache,
\* &PyDataMem_FREE) run one loop test, one dealloc and one reset at a time.
\* thr[t].n is nelem, thr[t].tmp is i, thr[t].seen the pointers handed to dealloc.
ClearUnchanged ==
    UNCHANGED <<dimcache, eventhook, eventhook_user_data, held, last, gil, slots,
                fenv_flags>>

\* npy_datamem_set_align that stores the alignment before it purges
ClearCall_early(t, align) ==
    /\ thr[t].pc = "idle"
    /\ LET align_mask == Wrap(align - 1)
           bad == \/ align < MIN_ALIGN
                  \/ BitXor(align, align_mask) # BitOr(align, align_mask)
       IN /\ thr' = [thr EXCEPT ![t].pc = IF bad THEN "idle"
                                         ELSE IF align > datamem_align THEN "c_outer"
                                         ELSE "sa_align",
                                ![t].arg = <<align, align_mask>>,
                                ![t].ret = IF bad THEN -1 ELSE 0,
                                ![t].n = 0, ![t].tmp = 0, ![t].seen = <<>>]
          /\ datamem_align' = IF bad THEN datamem_align ELSE align
    /\ UNCHANGED <<heap, mem, fault, datacache, datamem_align_mask>>
    /\ ClearUnchanged

\* entry: the two tests of align and the test align > datamem_align
ClearCall(t, align) ==
    /\ thr[t].pc = "idle"
    /\ LET align_mask == Wrap(align - 1)
           bad == \/ align < MIN_ALIGN
                  \/ BitXor(align, align_mask) # BitOr(align, align_mask)
       IN thr' = [thr EXCEPT ![t].pc = IF bad THEN "idle"
                                      ELSE IF align > datamem_align THEN "c_outer"
                                      ELSE "sa_align",
                             ![t].arg = <<align, align_mask>>,
                             ![t].ret = IF bad THEN -1 ELSE 0,
                             ![t].n = 0, ![t].tmp = 0, ![t].seen = <<>>]
    /\ UNCHANGED <<heap, mem, fault, datacache, datamem_align, datamem_align_mask>>
    /\ ClearUnchanged

\* for (nelem = 0; nelem < msz; nelem++): the test
ClearOuter(t) ==
    /\ thr[t].pc = "c_outer"
    /\ thr' = [thr EXCEPT ![t].pc = IF thr[t].n < NBUCKETS THEN "c_inner" ELSE "sa_align",
                         ![t].tmp = 0]
    /\ UNCHANGED <<heap, mem, fault, datacache, datamem_align, datamem_align_mask>>
    /\ ClearUnchanged

\* for (i = 0; i < cache[nelem].available; i++) dealloc(cache[nelem].ptrs[i])
ClearInner(t) ==
    /\ thr[t].pc = "c_inner"
    /\ IF thr[t].tmp < Bucket(datacache, thr[t].n).available
       THEN LET p == Bucket(datacache, thr[t].n).ptrs[thr[t].tmp + 1]
            IN /\ Commit(PyDataMem_FREE(Machine, p))
               /\ thr' = [thr EXCEPT ![t].tmp = @ + 1, ![t].seen = Append(@, p)]
       ELSE /\ thr' = [thr EXCEPT ![t].pc = "c_reset"]
            /\ UNCHANGED <<heap, mem, fault>>
    /\ UNCHANGED <<datacache, datamem_align, datamem_align_mask>>
    /\ ClearUnchanged

\* the reset that does not go on to the next bucket
ClearReset_stay(t) ==
    /\ thr[t].pc = "c_reset"
    /\ datacache' = SetBucket(datacache, thr[t].n, EmptyBucket)
    /\ thr' = [thr EXCEPT ![t].pc = "c_outer"]
    /\ UNCHANGED <<heap, mem, fault, datamem_align, datamem_align_mask>>
    /\ ClearUnchanged

\* cache[nelem].available = 0; nelem++
ClearReset(t) ==
    /\ thr[t].pc = "c_reset"
    /\ datacache' = SetBucket(datacache, thr[t].n, EmptyBucket)
    /\ thr' = [thr EXCEPT ![t].pc = "c_outer", ![t].n = @ + 1]
    /\ UNCHANGED <<heap, mem, fault, datamem_align, datamem_align_mask>>
    /\ ClearUnchanged

\* datamem_align = align
ClearStoreAlign(t) ==
    /\ thr[t].pc = "sa_align"
    /\ datamem_align' = thr[t].arg[1]
    /\ thr' = [thr EXCEPT ![t].pc = "sa_mask"]
    /\ UNCHANGED <<heap, mem, fault, datacache, datamem_align_mask>>
    /\ ClearUnchanged

\* datamem_align_mask = align_mask; return 0
ClearStoreMask(t) ==
    /\ thr[t].pc = "sa_mask"
    /\ datamem_align_mask' = thr[t].arg[2]
    /\ thr' = [thr EXCEPT ![t].pc = "idle"]
    /\ UNCHANGED <<heap, mem, fault, datacache, datamem_align>>
    /\ ClearUnchanged

\* the steps of a set_alignment that is running
ClearSteps(t) ==
    \/ ClearOuter(t)
    \/ ClearInner(t)
    \/ ClearReset(t)
    \/ ClearStoreAlign(t)
    \/ ClearStoreMask(t)

\* ----------------------------------------------- floating-point status
\* The status functions of npy_math on the platforms with <fenv.h>.
\* fenv_flags is the set of exception flags raised in the floating-point
\* environment, as the bit mask fetestexcept(FE_ALL_EXCEPT) would return, with
\* the FE_* values of x86; the NPY_FPE_* bits are those of npy_math.h.
FE_INVALID == 1
FE_DIVBYZERO == 4
FE_OVERFLOW == 8
FE_UNDERFLOW == 16
FE_INEXACT == 32
NPY_FPE_DIVIDEBYZERO == 1
NPY_FPE_OVERFLOW == 2
NPY_FPE_UNDERFLOW == 4
NPY_FPE_INVALID == 8
\* FE_DIVBYZERO | FE_OVERFLOW | FE_UNDERFLOW | FE_INVALID
FE_STATUS == BitOr(BitOr(FE_DIVBYZERO, FE_OVERFLOW), BitOr(FE_UNDERFLOW, FE_INVALID))
\* the flags a floating-point operation of the program may raise
FE_ALL == BitOr(FE_STATUS, FE_INEXACT)
FenvMasks == {x \in 0 .. FE_ALL : BitAnd(x, FE_ALL) = x}

fetestexcept(env, excepts) == BitAnd(env, excepts)
feclearexcept(env, excepts) == env - BitAnd(env, excepts)
\* feraiseexcept(excepts); also is FE_INEXACT or 0: whether raising overflow or
\* underflow raises inexact too is up to the implementation
feraiseexcept(env, excepts, also) == BitOr(env, BitOr(excepts, also))
RaiseAlso(excepts) ==
    IF excepts \in {FE_OVERFLOW, FE_UNDERFLOW} THEN {0, FE_INEXACT} ELSE {0}

\* npy_get_floatstatus_barrier(param)
npy_get_floatstatus_barrier(env) ==
    LET fpstatus == fetestexcept(env, FE_STATUS)
    IN BitOr(BitOr(IF BitAnd(FE_DIVBYZERO, fpstatus) # 0 THEN NPY_FPE_DIVIDEBYZERO ELSE 0,
                   IF BitAnd(FE_OVERFLOW, fpstatus) # 0 THEN NPY_FPE_OVERFLOW ELSE 0),
             BitOr(IF BitAnd(FE_UNDERFLOW, fpstatus) # 0 THEN NPY_FPE_UNDERFLOW ELSE 0,
                   IF BitAnd(FE_INVALID, fpstatus) # 0 THEN NPY_FPE_INVALID ELSE 0))

\* npy_clear_floatstatus_barrier that reports the status and clears nothing
npy_clear_floatstatus_barrier_keep(env) ==
    [env |-> env, ret |-> npy_get_floatstatus_barrier(env)]

\* npy_clear_floatstatus_barrier(param)
npy_clear_floatstatus_barrier(env) ==
    LET fpstatus == npy_get_floatstatus_barrier(env)
    IN [env |-> IF fpstatus # 0 THEN feclearexcept(env, FE_STATUS) ELSE env,
        ret |-> fpstatus]

FloatUnchanged ==
    UNCHANGED <<heap, mem, datacache, dimcache, datamem_align, datamem_align_mask,
                eventhook, eventhook_user_data, held, fault, thr, gil, slots>>

\* the record of a status call: last.pre = <<the flags before the call>>
FloatCall(op, arg, ret) ==
    [op |-> op, arg |-> arg, n |-> 0, ret |-> ret, calls |-> <<>>, hooks |-> <<>>,
     pre |-> <<fenv_flags>>]

\* npy_get_floatstatus_barrier(param) / npy_get_floatstatus()
GetFloatStatus(param) ==
    /\ fenv_flags' = fenv_flags
    /\ last' = FloatCall("get_floatstatus", param, npy_get_floatstatus_barrier(fenv_flags))
    /\ FloatUnchanged

\* npy_clear_floatstatus_barrier(param) / npy_clear_floatstatus()
ClearFloatStatus(param) ==
    /\ LET r == npy_clear_floatstatus_barrier(fenv_flags)
       IN /\ fenv_flags' = r.env
          /\ last' = FloatCall("clear_floatstatus", param, r.ret)
    /\ FloatUnchanged

\* npy_set_floatstatus_divbyzero / _overflow / _underflow / _invalid
SetFloatStatus(excepts, also) ==
    /\ fenv_flags' = feraiseexcept(fenv_flags, excepts, also)
    /\ last' = FloatCall("set_floatstatus", excepts, NULL)
    /\ FloatUnchanged

\* arithmetic of the program raises flags
FloatOperation(raised) ==
    /\ fenv_flags' = BitOr(fenv_flags, raised)
    /\ last' = FloatCall("float_op", raised, NULL)
    /\ FloatUnchanged

\* ------------------------------------------ a hook that calls back into alloc.c
\* The purge of npy_datamem_set_align with the event hook running inside each
\* PyDataMem_FREE of _npy_clear_cache: between the free() and the return of
\* the hook, the hook may call npy_alloc_cache and npy_free_cache itself.
\* thr[t].p is the pointer PyDataMem_FREE was called with, thr[t].k the number
\* of calls the running hook has made, thr[t].seen the invocations of the hook
\* <<callback, old, new, size, user_data>> since the call of set_alignment.
\* calls one invocation of the hook makes
MaxReenter == 1

\* the loop test of the inner loop and, inside dealloc, free(get_original_pointer(ptr))
\* and the test of _PyDataMem_eventhook
ReenterInner(t) ==
    /\ thr[t].pc = "c_inner"
    /\ IF thr[t].tmp < Bucket(datacache, thr[t].n).available
       THEN LET p == Bucket(datacache, thr[t].n).ptrs[thr[t].tmp + 1]
                m1 == IF p # NULL THEN free(Machine, get_original_pointer(Machine, p))
                      ELSE Machine
            IN /\ Commit(m1)
               /\ thr' = IF eventhook # NULL
                         THEN [thr EXCEPT ![t].pc = "c_hook", ![t].p = p, ![t].k = 0,
                                          ![t].seen = Append(@, <<eventhook, p, NULL, 0,
                                                                  eventhook_user_data>>)]
                         ELSE [thr EXCEPT ![t].tmp = @ + 1]
       ELSE /\ thr' = [thr EXCEPT ![t].pc = "c_reset"]
            /\ UNCHANGED <<heap, mem, fault>>
    /\ UNCHANGED <<datacache, datamem_align, datamem_align_mask>>
    /\ ClearUnchanged

\* the running hook calls npy_alloc_cache(sz)
ReenterHookAlloc(t, sz, b) ==
    /\ thr[t].pc = "c_hook"
    /\ thr[t].k < MaxReenter
    /\ AllocData(sz, b)
    /\ thr' = [thr EXCEPT ![t].k = @ + 1]
    /\ UNCHANGED <<gil, slots, fenv_flags>>

\* the running hook calls npy_free_cache on a block it holds
ReenterHookFree(t, blk) ==
    /\ thr[t].pc = "c_hook"
    /\ thr[t].k < MaxReenter
    /\ FreeData(blk)
    /\ thr' = [thr EXCEPT ![t].k = @ + 1]
    /\ UNCHANGED <<gil, slots, fenv_flags>>

\* the hook returns, PyDataMem_FREE returns, i++
ReenterHookReturn(t) ==
    /\ thr[t].pc = "c_hook"
    /\ thr' = [thr EXCEPT ![t].pc = "c_inner", ![t].tmp = @ + 1, ![t].p = NULL]
    /\ UNCHANGED <<heap, mem, fault, datacache, datamem_align, datamem_align_mask>>
    /\ ClearUnchanged

\* ---------------------------------------------------------- specifications
\* Spec: the data cache, reallocation and the alignment
Next ==
    /\ fault = "none"
    /\ UNCHANGED cvars
    /\ \/ \E sz \in DataSizes, b \in MallocOutcomes(heap, MaxBlocks, BaseResidues) :
            Cardinality(held) < MaxHeld /\ AllocData(sz, b)
       \/ \E blk \in held : FreeData(blk)
       \/ \E blk \in held, size \in DataSizes :
            \E r \in ReallocOutcomes(heap, BaseOf(blk), MaxBlocks, BaseResidues) :
               Renew(blk, size, r)
       \/ \E align \in AlignValues : SetAlign(align)

Spec == Init /\ [][Next]_vars

\* SpecMem: the bytes of data blocks across reallocation, with sizes the
\* cache does not keep
MemSizes == {NBUCKETS, NBUCKETS + MIN_ALIGN}
NextMem ==
    /\ fault = "none"
    /\ UNCHANGED cvars
    /\ \/ \E sz \in MemSizes, b \in MallocOutcomes(heap, MaxBlocks, BaseResidues) :
            Cardinality(held) < MaxHeld /\ AllocData(sz, b)
       \/ \E blk \in held : FreeData(blk)
       \/ \E blk \in held, size \in MemSizes :
            \E r \in ReallocOutcomes(heap, BaseOf(blk), MaxBlocks, BaseResidues) :
               Renew(blk, size, r)
       \/ \E blk \in held : Fill(blk)
       \/ \E align \in {MIN_ALIGN, 2 * MIN_ALIGN} : SetAlign(align)

SpecMem == Init /\ [][NextMem]_vars

\* SpecHook: the event hook over the data allocator
NextHook ==
    /\ fault = "none"
    /\ UNCHANGED cvars
    /\ \/ \E sz \in DataSizes, b \in MallocOutcomes(heap, MaxBlocks, {0}) :
            Cardinality(held) < MaxHeld /\ AllocData(sz, b)
       \/ \E b \in MallocOutcomes(heap, MaxBlocks, {0}) :
            Cardinality(held) < MaxHeld /\ AllocDataZero(NBUCKETS, b)
       \/ \E blk \in held : FreeData(blk)
       \/ \E blk \in held, size \in DataSizes :
            \E r \in ReallocOutcomes(heap, BaseOf(blk), MaxBlocks, {0}) :
               Renew(blk, size, r)
       \/ \E align \in {MIN_ALIGN, 2 * MIN_ALIGN} : SetAlign(align)
       \/ \E hp \in HookPairs, with_old \in BOOLEAN : SetEventHook(hp[1], hp[2], with_old)

SpecHook == Init /\ [][NextHook]_vars

\* SpecDim: the dimension cache beside the data cache
NextDim ==
    /\ fault = "none"
    /\ UNCHANGED cvars
    /\ \/ \E sz \in DimCounts, b \in MallocOutcomes(heap, MaxBlocks, BaseResidues) :
            Cardinality(held) < MaxHeld /\ AllocDim(sz, b)
       \/ \E blk \in held, sz \in DimCounts : FreeDim(blk, sz)
       \/ \E b \in MallocOutcomes(heap, MaxBlocks, BaseResidues) :
            Cardinality(held) < MaxHeld /\ AllocData(SmallSz, b)
       \/ \E blk \in held : FreeData(blk)
       \/ \E align \in AlignRequests : SetAlign(align)

SpecDim == Init /\ [][NextDim]_vars

\* SpecFill: callers that hold up to NCACHE + 1 blocks of one size class of
\* each cache and free them newest first, so that buckets fill up
FillBlocks == NCACHE + 1
Newest(blk) == \A o \in held : o.p <= blk.p
NextFill ==
    /\ fault = "none"
    /\ UNCHANGED cvars
    /\ \/ \E b \in MallocOutcomes(heap, FillBlocks, {0}) :
            Cardinality(held) < FillBlocks /\ AllocData(SmallSz, b)
       \/ \E blk \in held : Newest(blk) /\ FreeData(blk)
       \/ \E b \in MallocOutcomes(heap, FillBlocks, {0}) :
            Cardinality(held) < FillBlocks /\ AllocDim(2, b)
       \/ \E blk \in held : Newest(blk) /\ FreeDim(blk, 2)
       \/ \E hp \in {<<NULL, 0>>, <<1, 11>>} : SetEventHook(hp[1], hp[2], TRUE)

SpecFill == Init /\ [][NextFill]_vars

\* SpecZero: PyDataMem_NEW_ZEROED called with element counts and sizes
NextZero ==
    /\ fault = "none"
    /\ UNCHANGED cvars
    /\ \/ \E pr \in ZeroPairs, b \in MallocOutcomes(heap, MaxBlocks, BaseResidues) :
            Cardinality(held) < MaxHeld /\ NewZeroed(pr[1], pr[2], b)
       \/ \E blk \in held : FreeRaw(blk)
       \/ \E hp \in HookPairs : SetEventHook(hp[1], hp[2], TRUE)

SpecZero == Init /\ [][NextZero]_vars

\* SpecDimHook: the dimension cache with the event hook, and frees of NULL
NextDimHook ==
    /\ fault = "none"
    /\ UNCHANGED cvars
    /\ \/ \E sz \in DimCounts, b \in MallocOutcomes(heap, MaxBlocks, BaseResidues) :
            Cardinality(held) < MaxHeld /\ AllocDim(sz, b)
       \/ \E blk \in held, sz \in DimCounts : FreeDim(blk, sz)
       \/ \E sz \in DataSizes : FreeDataNull(sz)
       \/ \E sz \in DimCounts : FreeDimNull(sz)
       \/ \E hp \in HookPairs : SetEventHook(hp[1], hp[2], TRUE)

SpecDimHook == Init /\ [][NextDimHook]_vars

\* SpecCache: callers that hold up to CacheBlocks blocks of two cached data
\* sizes, one data size the cache does not keep and the dimension counts, and
\* free them in any order
CacheBlocks == 3
CacheSizes == {SmallSz, SmallSz + 8, NBUCKETS}
NextCache ==
    /\ fault = "none"
    /\ UNCHANGED cvars
    /\ \/ \E sz \in CacheSizes, b \in MallocOutcomes(heap, CacheBlocks, {0}) :
            Cardinality(held) < CacheBlocks /\ AllocData(sz, b)
       \/ \E blk \in held : FreeData(blk)
       \/ \E sz \in DimCounts, b \in MallocOutcomes(heap, CacheBlocks, {0}) :
            Cardinality(held) < CacheBlocks /\ AllocDim(sz, b)
       \/ \E blk \in held, sz \in DimCounts : FreeDim(blk, sz)
       \/ \E sz \in CacheSizes : FreeDataNull(sz)
       \/ \E sz \in DimCounts : FreeDimNull(sz)

SpecCache == Init /\ [][NextCache]_vars

\* SpecPurge: set_alignment over caches that hold several blocks
PurgeBlocks == 3
PurgeSizes == {SmallSz, SmallSz + 8}
NextPurge ==
    /\ fault = "none"
    /\ UNCHANGED cvars
    /\ \/ \E sz \in PurgeSizes, b \in MallocOutcomes(heap, PurgeBlocks, {0}) :
            Cardinality(held) < PurgeBlocks /\ AllocData(sz, b)
       \/ \E blk \in held : FreeData(blk)
       \/ \E b \in MallocOutcomes(heap, PurgeBlocks, {0}) :
            Cardinality(held) < PurgeBlocks /\ AllocDim(2, b)
       \/ \E blk \in held : FreeDim(blk, 2)
       \/ \E align \in AlignRequests : SetAlign(align)

SpecPurge == Init /\ [][NextPurge]_vars

\* SpecZeroFill: zeroed and plain allocations of a cached and of an uncached
\* size, the caller writing the blocks it holds
NextZeroFill ==
    /\ fault = "none"
    /\ UNCHANGED cvars
    /\ \/ \E sz \in DataSizes, b \in MallocOutcomes(heap, MaxBlocks, BaseResidues) :
            Cardinality(held) < MaxBlocks /\ AllocDataZero(sz, b)
       \/ \E sz \in DataSizes, b \in MallocOutcomes(heap, MaxBlocks, BaseResidues) :
            Cardinality(held) < MaxBlocks /\ AllocData(sz, b)
       \/ \E blk \in held : Fill(blk)
       \/ \E blk \in held : FreeData(blk)

SpecZeroFill == Init /\ [][NextZeroFill]_vars

\* SpecNew: PyDataMem_NEW with sizes up to the largest a word holds, bases of
\* every residue modulo 32 a word-aligned malloc returns, and the alignments
NewSizes == {0, 1, SmallSz, NBUCKETS, WordMod - MIN_ALIGN, WordMod - 1}
NewResidues == {0, PtrSize, 2 * PtrSize, 3 * PtrSize}
NextNew ==
    /\ fault = "none"
    /\ UNCHANGED cvars
    /\ \/ \E size \in NewSizes, b \in MallocOutcomes(heap, MaxBlocks, NewResidues) :
            Cardinality(held) < MaxHeld /\ NewRaw(size, b)
       \/ \E blk \in held : FreeRaw(blk)
       \/ \E align \in AlignValues : SetAlign(align)

SpecNew == Init /\ [][NextNew]_vars

\* SpecLoop: one caller; allocate_data and free_data between its calls of
\* set_alignment, which runs step by step.  The caller's thread keeps running:
\* a step of a call that has started is taken.
NextLoop ==
    /\ fault = "none"
    /\ \/ /\ thr[1].pc = "idle"
          /\ UNCHANGED cvars
          /\ \/ \E b \in MallocOutcomes(heap, MaxBlocks, {0}) :
                  Cardinality(held) < MaxBlocks /\ AllocData(SmallSz, b)
             \/ \E blk \in held : FreeData(blk)
       \/ \E align \in AlignRequests : ClearCall(1, align)
       \/ ClearSteps(1)

SpecLoop == Init /\ [][NextLoop]_vars /\ WF_vars(ClearSteps(1))

\* SpecReenter: one caller that registers a hook; set_alignment runs step by
\* step and the hook, invoked for every block the purge releases, may allocate
\* and free data blocks of the size class being purged
ReenterBlocks == 2
NextReenter ==
    /\ fault = "none"
    /\ \/ /\ thr[1].pc = "idle"
          /\ UNCHANGED cvars
          /\ \/ \E b \in MallocOutcomes(heap, ReenterBlocks, {0}) :
                  Cardinality(held) < ReenterBlocks /\ AllocData(SmallSz, b)
             \/ \E blk \in held : FreeData(blk)
             \/ eventhook = NULL /\ SetEventHook(1, 11, TRUE)
       \/ \E align \in {MIN_ALIGN, 2 * MIN_ALIGN} : ClearCall(1, align)
       \/ ClearOuter(1)
       \/ ReenterInner(1)
       \/ \E b \in MallocOutcomes(heap, ReenterBlocks, {0}) :
              Cardinality(held) < ReenterBlocks /\ ReenterHookAlloc(1, SmallSz, b)
       \/ \E blk \in held : ReenterHookFree(1, blk)
       \/ ReenterHookReturn(1)
       \/ ClearReset(1)
       \/ ClearStoreAlign(1)
       \/ ClearStoreMask(1)

SpecReenter == Init /\ [][NextReenter]_vars

\* SpecWrap: data sizes and dimension counts up to the largest a word holds
WrapSizes == {SmallSz, NBUCKETS, WordMod - MIN_ALIGN - PtrSize, WordMod - MIN_ALIGN, WordMod - 1}
WrapCounts == {1, 2, NBUCKETS_DIM, WordMod \div IntpSize - 1, WordMod \div IntpSize,
               WordMod \div IntpSize + 3}
NextWrap ==
    /\ fault = "none"
    /\ UNCHANGED cvars
    /\ \/ \E sz \in WrapSizes, b \in MallocOutcomes(heap, MaxBlocks, BaseResidues) :
            Cardinality(held) < MaxBlocks /\ AllocData(sz, b)
       \/ \E blk \in held : FreeData(blk)
       \/ \E sz \in WrapCounts, b \in MallocOutcomes(heap, MaxBlocks, BaseResidues) :
            Cardinality(held) < MaxBlocks /\ AllocDim(sz, b)
       \/ \E blk \in held, sz \in DimCounts : FreeDim(blk, sz)

SpecWrap == Init /\ [][NextWrap]_vars

\* SpecHookPurge: one caller that registers and removes a hook; set_alignment
\* runs step by step, the hook invoked inside every PyDataMem_FREE of the purge
\* and calling nothing itself
NextHookPurge ==
    /\ fault = "none"
    /\ \/ /\ thr[1].pc = "idle"
          /\ UNCHANGED cvars
          /\ \/ \E sz \in PurgeSizes, b \in MallocOutcomes(heap, MaxBlocks, {0}) :
                  Cardinality(held) < MaxBlocks /\ AllocData(sz, b)
             \/ \E blk \in held : FreeData(blk)
             \/ \E hp \in {<<NULL, 0>>, <<1, 11>>} : SetEventHook(hp[1], hp[2], TRUE)
       \/ \E align \in {MIN_ALIGN, 2 * MIN_ALIGN} : ClearCall(1, align)
       \/ ClearOuter(1)
       \/ ReenterInner(1)
       \/ ReenterHookReturn(1)
       \/ ClearReset(1)
       \/ ClearStoreAlign(1)
       \/ ClearStoreMask(1)

SpecHookPurge == Init /\ [][NextHookPurge]_vars

\* SpecFloat: the floating-point status functions between the program's
\* floating-point operations
NextFloat ==
    \/ \E param \in {NULL, 1} : GetFloatStatus(param)
    \/ \E param \in {NULL, 1} : ClearFloatStatus(param)
    \/ \E x \in {FE_DIVBYZERO, FE_OVERFLOW, FE_UNDERFLOW, FE_INVALID} :
          \E also \in RaiseAlso(x) : SetFloatStatus(x, also)
    \/ \E raised \in FenvMasks : FloatOperation(raised)

SpecFloat == Init /\ [][NextFloat]_vars

\* SpecRace: two threads in npy_alloc_cache / npy_free_cache at the same time
RaceBlocks == 2
NextRace ==
    /\ fault = "none"
    /\ \E t \in Threads :
         \/ \E sz \in RaceSizes : RaceCallAlloc(t, sz)
         \/ RaceAllocTest(t)
         \/ RaceAllocLoad(t)
         \/ RaceAllocStore(t)
         \/ RaceAllocRead(t)
         \/ \E b \in MallocOutcomes(heap, RaceBlocks, {0}) : RaceAllocMiss(t, b)
         \/ \E blk \in thr[t].own : RaceCallFree(t, blk)
         \/ RaceFreeTest(t)
         \/ RaceFreeLoad(t)
         \/ RaceFreeStore(t)
         \/ RaceFreeWrite(t)
         \/ RaceFreeWriteFirst(t)
         \/ RaceFreeStoreLast(t)
         \/ RaceFreeDealloc(t)

SpecRace == Init /\ [][NextRace]_vars

\* SpecHookRace: PyDataMem_NEW and PyDataMem_SetEventHook at the same time
NextHookRace ==
    /\ fault = "none"
    /\ \E t \in Threads :
         \/ NewCall(t, SmallSz)
         \/ NewSize(t)
         \/ \E b \in MallocOutcomes(heap, RaceBlocks, {0}) : NewMalloc(t, b)
         \/ NewAlign(t)
         \/ HookTest1(t)
         \/ HookLock(t)
         \/ HookTest2(t)
         \/ HookReadFn(t)
         \/ HookCall(t)
         \/ HookUnlock(t)
         \/ \E h \in HookPairs, with_old \in BOOLEAN : SetHookCall(t, h[1], h[2], with_old)
         \/ SetHookLock(t)
         \/ SetHookTemp(t)
         \/ SetHookStore(t)
         \/ SetHookOld(t)
         \/ SetHookUd(t)
         \/ SetHookUnlock(t)

SpecHookRace == Init /\ [][NextHookRace]_vars

\* SpecAlignRace: PyDataMem_NEW and npy_datamem_set_align at the same time
NextAlignRace ==
    /\ fault = "none"
    /\ \E t \in Threads :
         \/ NewCall(t, SmallSz)
         \/ NewSize(t)
         \/ \E b \in MallocOutcomes(heap, RaceBlocks, {0}) : NewMalloc(t, b)
         \/ NewAlign(t)
         \/ HookTest1(t)
         \/ \E a \in AlignRequests : SetAlignCall(t, a)
         \/ SetAlignCheck(t)
         \/ SetAlignStore(t)
         \/ SetAlignMask(t)

SpecAlignRace == Init /\ [][NextAlignRace]_vars

\* ------------------------------------------------------------------ claims
\* C1: allocate_data(n) returning A, free_data(A, n), allocate_data(n) again,
\* with no call in between, returns A again when n < NBUCKETS.
C1_Reuse ==
    (last.op = "alloc_data" /\ last.n < NBUCKETS /\ last.pre # <<>>)
        => last.ret = last.pre[1]

\* the second allocation of C1 has returned, and it returned the address freed
C1_Witness ==
    /\ last.op = "alloc_data"
    /\ last.n < NBUCKETS
    /\ last.pre # <<>>
    /\ last.ret = last.pre[1]
    /\ last.calls = <<>>

\* C3: every address allocate_data / allocate_dims returns is a multiple of
\* the current alignment.
C3_AllocAligned ==
    (last.op \in {"alloc_data", "alloc_dim"} /\ last.ret # NULL)
        => last.ret % datamem_align = 0

\* C5: every non-null address reallocate returns is a multiple of the
\* alignment current at the call.
C5_RenewAligned ==
    (last.op = "renew" /\ last.ret # NULL) => last.ret % datamem_align = 0

\* C6: after set_alignment has raised the alignment, no allocate_data returns
\* an address aligned to the old value only.  The alignment starts at
\* MIN_ALIGN, every address is a multiple of MIN_ALIGN and set_alignment does
\* not run between the allocation and the state after it: a current alignment
\* above MIN_ALIGN has been raised to, from a value every address satisfies.
C6_NoStaleAfterRaise ==
    (last.op = "alloc_data" /\ last.ret # NULL /\ datamem_align > MIN_ALIGN)
        => ~(last.ret % MIN_ALIGN = 0 /\ last.ret % datamem_align # 0)

\* the byte at offset i of a block as Payload recorded it
PayloadByte(pl, i) ==
    IF i \in DOMAIN pl.bytes THEN pl.bytes[i]
    ELSE IF i < pl.zero THEN 0 ELSE Undef

\* C4: a successful reallocate returns a block whose bytes at offsets
\* [0, min(oldSize, newSize)) are the bytes the block held there before the
\* call (bytes the caller never initialised are not compared).
C4_RenewKeepsBytes ==
    (last.op = "renew" /\ last.ret # NULL) =>
        \A i \in (DOMAIN last.pre.bytes) \cup (0 .. (last.pre.zero - 1)) :
            Byte(Machine, last.ret + i) = PayloadByte(last.pre, i)

\* C2: every bucket of the data cache and of the dimension cache has
\* 0 <= available <= NCACHE, and only the buckets 0 .. msz - 1 exist.
C2_AvailableBounded ==
    /\ \A n \in DOMAIN datacache :
         /\ n \in 0 .. (NBUCKETS - 1)
         /\ datacache[n].available \in 0 .. NCACHE
    /\ \A n \in DOMAIN dimcache :
         /\ n \in 0 .. (NBUCKETS_DIM - 1)
         /\ dimcache[n].available \in 0 .. NCACHE

\* a dimension block has been freed into a full bucket
C2_Witness ==
    /\ last.op = "free_dim"
    /\ last.calls # <<>>
    /\ Bucket(dimcache, dim_clamp(last.n)).available = NCACHE

\* C7: with a hook registered, the hook runs once for an allocate_data that
\* misses the cache, once for a free_data the cache does not absorb and once
\* for a reallocate, and not at all for an allocate_data served from the cache
\* or a free_data the cache absorbs; allocate, free, allocate again of a cached
\* size: no hook call for the free, none for the second allocation, which
\* returns the same address.
C7_Step ==
    eventhook # NULL =>
        /\ last'.op = "alloc_data" =>
             Len(last'.hooks) =
                IF last'.n < NBUCKETS /\ Bucket(datacache, last'.n).available > 0
                THEN 0 ELSE 1
        /\ last'.op = "free_data" =>
             Len(last'.hooks) =
                IF last'.n < NBUCKETS /\ Bucket(datacache, last'.n).available < NCACHE
                THEN 0 ELSE 1
        /\ last'.op = "renew" => Len(last'.hooks) = 1
        /\ (last'.op = "free_data" /\ last'.n < NBUCKETS /\ last'.pre # <<>>) =>
             last'.hooks = <<>>
        /\ (last'.op = "alloc_data" /\ last'.n < NBUCKETS /\ last'.pre # <<>>) =>
             last'.hooks = <<>> /\ last'.ret = last'.pre[1]
C7_HookOncePerSystemCall == [][C7_Step]_vars

\* with a hook registered: allocate, free and allocate again of a cached size,
\* the second allocation served from the cache without a hook call
C7_Witness ==
    /\ eventhook # NULL
    /\ last.op = "alloc_data"
    /\ last.n < NBUCKETS
    /\ last.pre # <<>>
    /\ last.hooks = <<>>

\* C8: the hook receives, with the registered user data, (NULL, result, size)
\* from an allocation, (ptr, NULL, 0) from a free and (ptr, result, size) from
\* a resize, result being what the call returns.
C8_HookArguments ==
    /\ (last.op \in {"alloc_data", "alloc_zero"} /\ last.hooks # <<>>) =>
          last.hooks = << <<eventhook, NULL, last.ret, last.n, eventhook_user_data>> >>
    /\ (last.op = "free_data" /\ last.hooks # <<>>) =>
          last.hooks = << <<eventhook, last.arg, NULL, 0, eventhook_user_data>> >>
    /\ (last.op = "renew" /\ last.hooks # <<>>) =>
          last.hooks = << <<eventhook, last.arg, last.ret, last.n, eventhook_user_data>> >>
    /\ last.op = "set_align" =>
          \A i \in DOMAIN last.hooks :
             /\ last.hooks[i][1] = eventhook
             /\ last.hooks[i][3] = NULL
             /\ last.hooks[i][4] = 0
             /\ last.hooks[i][5] = eventhook_user_data

\* the hook has been told of an allocation the system allocator refused
C8_Witness ==
    /\ last.op = "alloc_data"
    /\ last.hooks # <<>>
    /\ last.ret = NULL
    /\ eventhook_user_data # NULL

\* C9: a free_data of a size class whose bucket holds NCACHE blocks leaves the
\* bucket alone and frees the block, with one hook call (addr, NULL, 0) when a
\* hook is registered; a free_data into a bucket that holds fewer is absorbed:
\* no system call, no hook call, one block more in the bucket.
C9_Step ==
    (last'.op = "free_data" /\ last'.n < NBUCKETS) =>
        LET bk == Bucket(datacache, last'.n)
        IN IF bk.available = NCACHE
           THEN /\ datacache' = datacache
                /\ last'.calls = << <<"free", get_original_pointer(Machine, last'.arg), NULL>> >>
                /\ DOMAIN heap' = (DOMAIN heap) \ {get_original_pointer(Machine, last'.arg)}
                /\ eventhook # NULL =>
                     last'.hooks = << <<eventhook, last'.arg, NULL, 0, eventhook_user_data>> >>
           ELSE /\ last'.calls = <<>>
                /\ last'.hooks = <<>>
                /\ heap' = heap
                /\ Bucket(datacache', last'.n) =
                      [available |-> bk.available + 1, ptrs |-> Append(bk.ptrs, last'.arg)]
C9_FullBucketBypass == [][C9_Step]_vars

\* the eighth of eight frees: the bucket holds NCACHE blocks, the caller holds
\* no data block any more, and the free went to the system allocator and the hook
C9_Witness ==
    /\ last.op = "free_data"
    /\ last.n < NBUCKETS
    /\ Bucket(datacache, last.n).available = NCACHE
    /\ ~ \E blk \in held : blk.kind = "data"
    /\ Len(last.calls) = 1
    /\ last.hooks = << <<eventhook, last.arg, NULL, 0, eventhook_user_data>> >>

\* C10: allocate_dims and free_dims take a count below 2 as 2: the block
\* allocate_dims returns has room for max(count, 2) words, and with a count in
\* {0, 1, 2} allocate_dims pops from and free_dims pushes to dimension bucket 2.
C10_Step ==
    LET bk == Bucket(dimcache, 2)
    IN  /\ (last'.op = "alloc_dim" /\ last'.ret # NULL) =>
              InBounds(heap', last'.ret, Max(last'.n, 2) * IntpSize)
        /\ (last'.op = "alloc_dim" /\ last'.n <= 2) =>
              IF bk.available > 0
              THEN /\ last'.ret = bk.ptrs[bk.available]
                   /\ last'.calls = <<>>
                   /\ Bucket(dimcache', 2).available = bk.available - 1
              ELSE /\ dimcache' = dimcache
                   /\ Len(last'.calls) = 1
                   /\ last'.calls[1][2] = get_aligned_size(2 * IntpSize)
        /\ (last'.op = "free_dim" /\ last'.n <= 2) =>
              IF bk.available < NCACHE
              THEN Bucket(dimcache', 2) =
                      [available |-> bk.available + 1, ptrs |-> Append(bk.ptrs, last'.arg)]
              ELSE dimcache' = dimcache
        /\ \A n \in DOMAIN dimcache' : n >= 2
C10_DimClamp == [][C10_Step]_vars

\* allocate_dims(1) has been served from bucket 2
C10_Witness ==
    /\ last.op = "alloc_dim"
    /\ last.n = 1
    /\ last.calls = <<>>
    /\ last.ret # NULL
    /\ InBounds(heap, last.ret, 2 * IntpSize)

\* C11: PyDataMem_NEW_ZEROED(count, elemSize) whose product overflows the
\* word returns NULL and calls no system allocator function.
C11_OverflowNoAlloc ==
    (/\ last.op = "new_zeroed"
     /\ last.arg > 0
     /\ last.n > (WordMod - 1) \div last.arg)
        => (last.ret = NULL /\ last.calls = <<>>)

\* an overflowing request has been answered while memory was available
C11_Witness ==
    /\ last.op = "new_zeroed"
    /\ last.arg > 1
    /\ last.n > (WordMod - 1) \div last.arg
    /\ last.ret = NULL
    /\ last.calls = <<>>
    /\ FreshBases(heap, MaxBlocks, BaseResidues) # {}

\* C12: set_alignment(align) fails for every align that is no power of two
\* or is below MIN_ALIGN, and then leaves the alignment, its mask and both
\* caches as they were; for a power of two >= MIN_ALIGN it succeeds and
\* get_alignment() returns align afterwards.
C12_Step ==
    last'.op = "set_align" =>
        IF last'.arg >= MIN_ALIGN /\ \E k \in 0 .. (WordBits - 1) : last'.arg = 2 ^ k
        THEN /\ last'.ret = 0
             /\ npy_datamem_get_align' = last'.arg
        ELSE /\ last'.ret = -1
             /\ UNCHANGED <<datamem_align, datamem_align_mask, datacache, dimcache>>
C12_SetAlignChecks == [][C12_Step]_vars

\* set_alignment(0) has been refused while both caches held a block
C12_Witness ==
    /\ last.op = "set_align"
    /\ last.arg = 0
    /\ last.ret = -1
    /\ datacache # <<>>
    /\ dimcache # <<>>

\* C13: when realloc fails inside reallocate(address, newSize), reallocate
\* returns NULL and leaves the block as it was: the allocation is not
\* released, no byte of it (content or stored base) changes, the caller still
\* holds it and nothing undefined has happened.
C13_Step ==
    (last'.op = "renew" /\ last'.calls[1][4] = NULL) =>
        /\ last'.ret = NULL
        /\ heap' = heap
        /\ mem' = mem
        /\ held' = held
        /\ fault' = "none"
        /\ get_original_pointer(Machine, last'.arg) \in DOMAIN heap'
C13_FailedRenewKeepsBlock == [][C13_Step]_vars

\* a reallocate of a block the caller had written has failed
C13_Witness ==
    /\ last.op = "renew"
    /\ last.calls[1][4] = NULL
    /\ last.ret = NULL
    /\ \E blk \in held : blk.p = last.arg
    /\ Byte(Machine, last.arg) = Pat(0)
    /\ Byte(Machine, last.arg + MaxFill - 1) = Pat(MaxFill - 1)

\* C14: each set_event_hook call returns the callback registered before it
\* and, when the caller asks for it, the user data registered before it (NULL
\* and NULL before the first call), and leaves the pair it was given
\* registered: the next call returns that pair.
C14_Step ==
    last'.op = "set_hook" =>
        /\ last'.ret = eventhook
        /\ last'.pre \in {<<>>, <<eventhook_user_data>>}
        /\ eventhook' = last'.arg
        /\ eventhook_user_data' = last'.n
        /\ last.op = "set_hook" =>
              (last'.ret = last.arg /\ last'.pre \in {<<>>, <<last.n>>})
C14_HookSwap == [][C14_Step]_vars

\* a second set_event_hook has returned the pair of the first
C14_Witness ==
    /\ last.op = "set_hook"
    /\ last.ret # NULL
    /\ last.ret # last.arg
    /\ last.pre # <<>>
    /\ last.pre[1] # NULL
    /\ last.pre[1] # last.n
    /\ eventhook = last.arg
    /\ eventhook_user_data = last.n

\* the blocks the two caches hold, and the number of slots in use
BucketPtrs(cache) ==
    UNION {{cache[n].ptrs[i] : i \in 1 .. cache[n].available} : n \in DOMAIN cache}
RECURSIVE SlotsUsed(_, _)
SlotsUsed(cache, ns) ==
    IF ns = {} THEN 0
    ELSE LET n == CHOOSE x \in ns : TRUE
         IN cache[n].available + SlotsUsed(cache, ns \ {n})
HeldPtrs(hs) == {blk.p : blk \in hs}
\* the live allocation a block lies in
AllocationOf(h, p) == {b \in DOMAIN h : b <= p /\ p < b + h[b].size}

\* every block is in one place: held by one caller, or in one slot of one
\* bucket, or released; the live allocations are those of the blocks held or cached
C15_OnePlace ==
    LET dps == BucketPtrs(datacache)
        mps == BucketPtrs(dimcache)
        hps == HeldPtrs(held)
        owned == dps \cup mps \cup hps
    IN /\ Cardinality(dps) = SlotsUsed(datacache, DOMAIN datacache)
       /\ Cardinality(mps) = SlotsUsed(dimcache, DOMAIN dimcache)
       /\ Cardinality(hps) = Cardinality(held)
       /\ dps \cap mps = {}
       /\ hps \cap (dps \cup mps) = {}
       /\ NULL \notin owned
       /\ Cardinality(owned) = Cardinality(DOMAIN heap)
       /\ UNION {AllocationOf(heap, p) : p \in owned} = DOMAIN heap

\* C15: callers freeing only blocks they hold, every block of the system
\* allocator is held, or cached in one slot, or released, never two of these;
\* a block enters the cache only from a caller that held it, and a caller
\* gets a block only from the cache or fresh from the system allocator.
C15_Step ==
    /\ C15_OnePlace'
    /\ (BucketPtrs(datacache) \cup BucketPtrs(dimcache))' \subseteq
          BucketPtrs(datacache) \cup BucketPtrs(dimcache) \cup HeldPtrs(held)
    /\ \A p \in HeldPtrs(held)' :
          \/ p \in HeldPtrs(held)
          \/ p \in BucketPtrs(datacache) \cup BucketPtrs(dimcache)
          \/ AllocationOf(heap, p) = {}
C15_BlockLifecycle == [][C15_Step]_vars

\* a cached block has become a held block again, beside blocks held and
\* blocks cached in both caches
C15_Witness ==
    /\ last.op = "alloc_data"
    /\ last.calls = <<>>
    /\ last.ret \in HeldPtrs(held)
    /\ \E blk \in held : blk.kind = "dim"
    /\ datacache # <<>>
    /\ dimcache # <<>>

\* C19: free_data(NULL, n) and free_dims(NULL, n) change no bucket, call no
\* system allocator function and do not invoke the event hook.
C19_Step ==
    (last'.op \in {"free_data", "free_dim"} /\ last'.arg = NULL) =>
        /\ UNCHANGED <<datacache, dimcache, heap, mem>>
        /\ last'.calls = <<>>
        /\ last'.hooks = <<>>
C19_FreeNullNoop == [][C19_Step]_vars

\* C20: with a hook registered, an allocate_dims that misses the dimension
\* cache goes through the aligned allocator to malloc and the hook is called
\* once, with (NULL, result, size); one served from the cache calls neither;
\* a free_dims the cache does not absorb frees the block and calls the hook
\* once, with (ptr, NULL, 0).
C20_Step ==
    eventhook # NULL =>
        /\ last'.op = "alloc_dim" =>
              LET n == IF last'.n < 2 THEN 2 ELSE last'.n
              IN IF n < NBUCKETS_DIM /\ Bucket(dimcache, n).available > 0
                 THEN last'.calls = <<>> /\ last'.hooks = <<>>
                 ELSE /\ Len(last'.calls) = 1
                      /\ last'.calls[1][1] = "malloc"
                      /\ last'.calls[1][2] = n * IntpSize + PtrSize + datamem_align_mask
                      /\ last'.hooks = << <<eventhook, NULL, last'.ret, n * IntpSize,
                                            eventhook_user_data>> >>
                      /\ last'.ret # NULL =>
                            /\ last'.ret % datamem_align = 0
                            /\ last'.ret >= last'.calls[1][3] + PtrSize
        /\ (last'.op = "free_dim" /\ last'.arg # NULL) =>
              LET n == IF last'.n < 2 THEN 2 ELSE last'.n
              IN IF n < NBUCKETS_DIM /\ Bucket(dimcache, n).available < NCACHE
                 THEN last'.calls = <<>> /\ last'.hooks = <<>>
                 ELSE /\ Len(last'.calls) = 1
                      /\ last'.calls[1][1] = "free"
                      /\ last'.hooks = << <<eventhook, last'.arg, NULL, 0,
                                            eventhook_user_data>> >>
SlotPtrs == {slots.ptrs[i] : i \in {j \in 0 .. (NCACHE - 1) : j < slots.available}}
\* the blocks the threads hold
OwnedBy(t) == {blk[1] : blk \in thr[t].own}

\* C16: with two threads in allocate / free of one size class and no lock
\* around them, no cached block is handed to two callers, no pushed block is
\* lost, and `available` agrees with the slots.
C16_NoRaceDamage ==
    /\ fault = "none"
    /\ \A t, u \in Threads : t # u => OwnedBy(t) \cap OwnedBy(u) = {}
    /\ (\A t \in Threads : thr[t].pc = "idle") =>
          /\ slots.available \in 0 .. NCACHE
          /\ Cardinality(SlotPtrs) = slots.available
          /\ \A t \in Threads : OwnedBy(t) \cap SlotPtrs = {}
          /\ \A b \in DOMAIN heap :
                \E p \in SlotPtrs \cup UNION {OwnedBy(t) : t \in Threads} :
                   b \in AllocationOf(heap, p)

\* C17: a hook call that races with PyDataMem_SetEventHook uses the callback
\* and the user data of one registration: a pair that was registered, never
\* the callback of one with the user data of the other, and never no callback.
C17_ConsistentPair ==
    \A t \in Threads : \A i \in 1 .. Len(thr[t].seen) :
        /\ thr[t].seen[i][1] # NULL
        /\ <<thr[t].seen[i][1], thr[t].seen[i][5]>> \in HookPairs

\* a thread has just called the hook of the second registration while the other
\* thread waits for the lock inside PyDataMem_SetEventHook
C17_Witness ==
    \E t, u \in Threads :
        /\ thr[t].pc = "h_unlock"
        /\ Len(thr[t].seen) > 0
        /\ thr[t].seen[Len(thr[t].seen)][1] = 2
        /\ thr[u].pc = "s_lock"

\* C18: npy_datamem_set_align excludes PyDataMem_NEW: a PyDataMem_NEW that
\* has aligned its block computed the size it asked malloc for under the mask
\* it aligned with, so that the header word and the caller's bytes lie inside
\* the allocation.
C18_SetAlignExcludesNew ==
    /\ fault = "none"
    /\ \A t \in Threads :
          (thr[t].pc = "h_test1" /\ thr[t].p # NULL) =>
              /\ thr[t].tmp = Wrap(thr[t].n + PtrSize + thr[t].mask)
              /\ thr[t].ret + thr[t].n <= thr[t].p + thr[t].tmp

\* C21: a bucket is a stack.  An allocate of a cached count whose bucket is
\* not empty returns the entry on top, takes exactly that entry off and leaves
\* every other bucket and the other cache alone; a free the bucket absorbs
\* puts its block on top: the entry on top is the block of the most recent
\* free into the bucket that has not been handed out again.
C21_Step ==
    /\ (last'.op = "alloc_data" /\ last'.n < NBUCKETS
           /\ Bucket(datacache, last'.n).available > 0) =>
          LET bk == Bucket(datacache, last'.n)
          IN /\ last'.ret = bk.ptrs[bk.available]
             /\ Bucket(datacache', last'.n) =
                   [available |-> bk.available - 1,
                    ptrs |-> SubSeq(bk.ptrs, 1, bk.available - 1)]
             /\ \A n \in ((DOMAIN datacache) \cup (DOMAIN datacache')) \ {last'.n} :
                   Bucket(datacache', n) = Bucket(datacache, n)
             /\ dimcache' = dimcache
    /\ (last'.op = "alloc_dim" /\ Max(last'.n, 2) < NBUCKETS_DIM
           /\ Bucket(dimcache, Max(last'.n, 2)).available > 0) =>
          LET bk == Bucket(dimcache, Max(last'.n, 2))
          IN /\ last'.ret = bk.ptrs[bk.available]
             /\ Bucket(dimcache', Max(last'.n, 2)) =
                   [available |-> bk.available - 1,
                    ptrs |-> SubSeq(bk.ptrs, 1, bk.available - 1)]
             /\ \A n \in ((DOMAIN dimcache) \cup (DOMAIN dimcache')) \ {Max(last'.n, 2)} :
                   Bucket(dimcache', n) = Bucket(dimcache, n)
             /\ datacache' = datacache
    /\ (last'.op = "free_data" /\ last'.arg # NULL /\ last'.n < NBUCKETS
           /\ Bucket(datacache, last'.n).available < NCACHE) =>
          LET bk == Bucket(datacache', last'.n)
          IN /\ bk.available = Bucket(datacache, last'.n).available + 1
             /\ bk.ptrs[bk.available] = last'.arg
             /\ SubSeq(bk.ptrs, 1, bk.available - 1) = Bucket(datacache, last'.n).ptrs
    /\ (last'.op = "free_dim" /\ last'.arg # NULL /\ Max(last'.n, 2) < NBUCKETS_DIM
           /\ Bucket(dimcache, Max(last'.n, 2)).available < NCACHE) =>
          LET bk == Bucket(dimcache', Max(last'.n, 2))
          IN /\ bk.available = Bucket(dimcache, Max(last'.n, 2)).available + 1
             /\ bk.ptrs[bk.available] = last'.arg
             /\ SubSeq(bk.ptrs, 1, bk.available - 1) = Bucket(dimcache, Max(last'.n, 2)).ptrs
C21_Lifo == [][C21_Step]_vars

\* an allocate_data has taken the newer of two blocks off a bucket while the
\* other data bucket held a block too
C21_Witness ==
    /\ last.op = "alloc_data"
    /\ last.calls = <<>>
    /\ Bucket(datacache, last.n).available = 1
    /\ Bucket(datacache, last.n).ptrs[1] # last.ret
    /\ \E n \in DOMAIN datacache : n # last.n

\* the number of bytes malloc was asked for the block at p
RequestOf(h, m, p) == h[get_original_pointer(m, p)].size

\* every block in bucket n of cache is a live allocation of the size the
\* aligned allocator requests for n * esz bytes
SizedBuckets(h, m, cache, esz) ==
    \A n \in DOMAIN cache : \A i \in 1 .. cache[n].available :
        /\ get_original_pointer(m, cache[n].ptrs[i]) \in DOMAIN h
        /\ RequestOf(h, m, cache[n].ptrs[i]) = get_aligned_size(n * esz)

\* C22: callers freeing each block with the count they allocated it with
\* (for dimensions: a count that clamps to the same one), every block in
\* bucket i of the data cache was requested with i bytes and every block in
\* bucket i of the dimension cache with i words, and the allocation of a block
\* that stays in a cache does not change.
C22_Step ==
    /\ SizedBuckets(heap', [Machine EXCEPT !.heap = heap', !.mem = mem'], datacache', 1)
    /\ SizedBuckets(heap', [Machine EXCEPT !.heap = heap', !.mem = mem'], dimcache', IntpSize)
    /\ \A p \in (BucketPtrs(datacache) \cup BucketPtrs(dimcache))
                   \cap (BucketPtrs(datacache') \cup BucketPtrs(dimcache')) :
          /\ get_original_pointer([Machine EXCEPT !.heap = heap', !.mem = mem'], p)
                = get_original_pointer(Machine, p)
          /\ heap'[get_original_pointer(Machine, p)] = heap[get_original_pointer(Machine, p)]
C22_BucketSizes == [][C22_Step]_vars

\* a block allocated for one dimension and freed with count 0 sits on top of
\* dimension bucket 2 while both data buckets hold a block
C22_Witness ==
    /\ last.op = "free_dim"
    /\ last.n = 0
    /\ last.arg # NULL
    /\ Bucket(dimcache, 2).available = 1
    /\ Bucket(dimcache, 2).ptrs[1] = last.arg
    /\ RequestOf(heap, Machine, last.arg) = get_aligned_size(2 * IntpSize)
    /\ Cardinality(DOMAIN datacache) = 2

\* C23: a set_alignment that succeeds with a value above the current one
\* leaves every data bucket with available = 0 and has released each block the
\* data cache held to the system allocator, once each and nothing else.
C23_Step ==
    (last'.op = "set_align" /\ last'.ret = 0 /\ last'.arg > datamem_align) =>
        /\ datacache' = <<>>
        /\ Len(last'.calls) = SlotsUsed(datacache, DOMAIN datacache)
        /\ \A p \in BucketPtrs(datacache) :
              /\ Cardinality({i \in DOMAIN last'.calls :
                    last'.calls[i] = <<"free", get_original_pointer(Machine, p), NULL>>}) = 1
              /\ get_original_pointer(Machine, p) \in DOMAIN heap
              /\ get_original_pointer(Machine, p) \notin DOMAIN heap'
        /\ Cardinality(DOMAIN heap') =
              Cardinality(DOMAIN heap) - SlotsUsed(datacache, DOMAIN datacache)
        /\ fault' = "none"
C23_RaisePurges == [][C23_Step]_vars

\* a set_alignment has emptied a data cache of three blocks in two buckets
C23_Witness ==
    /\ last.op = "set_align"
    /\ last.ret = 0
    /\ last.arg > last.n
    /\ Len(last.calls) = 3
    /\ last.calls[1] # last.calls[2]
    /\ datacache = <<>>
    /\ heap = <<>>

\* C30: set_alignment never changes the dimension cache, and one that
\* succeeds with a value not above the current alignment leaves every data
\* bucket as it was and releases nothing.
C30_Step ==
    last'.op = "set_align" =>
        /\ dimcache' = dimcache
        /\ (last'.ret = 0 /\ last'.arg <= datamem_align) =>
              /\ datacache' = datacache
              /\ last'.calls = <<>>
              /\ heap' = heap
              /\ mem' = mem
C30_SetAlignFrame == [][C30_Step]_vars

\* the alignment has been lowered while both caches held blocks
C30_Witness ==
    /\ last.op = "set_align"
    /\ last.ret = 0
    /\ last.arg < last.n
    /\ Cardinality(DOMAIN datacache) = 2
    /\ dimcache # <<>>

\* C24: an allocate of NBUCKETS bytes or more, or of NBUCKETS_DIM words or
\* more, calls malloc whatever the caches hold, a free of such a block calls
\* free on its allocation, and neither changes a bucket of either cache.
C24_Step ==
    /\ ((last'.op = "alloc_data" /\ last'.n >= NBUCKETS)
           \/ (last'.op = "alloc_dim" /\ last'.n >= NBUCKETS_DIM)) =>
          /\ Len(last'.calls) = 1
          /\ last'.calls[1][1] = "malloc"
          /\ last'.ret # NULL => last'.ret \notin BucketPtrs(datacache) \cup BucketPtrs(dimcache)
          /\ UNCHANGED <<datacache, dimcache>>
    /\ ((last'.op = "free_data" /\ last'.n >= NBUCKETS)
           \/ (last'.op = "free_dim" /\ last'.n >= NBUCKETS_DIM)) =>
          /\ UNCHANGED <<datacache, dimcache>>
          /\ last'.arg # NULL =>
                /\ last'.calls = << <<"free", get_original_pointer(Machine, last'.arg), NULL>> >>
                /\ get_original_pointer(Machine, last'.arg) \notin DOMAIN heap'
C24_LargeBypass == [][C24_Step]_vars

\* a block of NBUCKETS bytes has been freed to the system allocator while
\* both caches held blocks
C24_Witness ==
    /\ last.op = "free_data"
    /\ last.n = NBUCKETS
    /\ Len(last.calls) = 1
    /\ datacache # <<>>
    /\ dimcache # <<>>

\* C25: allocate_data / allocate_dims return NULL only from a call in which
\* malloc returned NULL; an allocate served from a bucket returns a block,
\* and no slot in use of either cache holds NULL, frees of NULL included.
C25_Step ==
    /\ (last'.op \in {"alloc_data", "alloc_dim"} /\ last'.ret = NULL) =>
          /\ Len(last'.calls) = 1
          /\ last'.calls[1][1] = "malloc"
          /\ last'.calls[1][3] = NULL
    /\ (last'.op \in {"alloc_data", "alloc_dim"} /\ last'.calls = <<>>) =>
          last'.ret # NULL
    /\ NULL \notin BucketPtrs(datacache') \cup BucketPtrs(dimcache')
C25_AllocFailsOnlyWithMalloc == [][C25_Step]_vars

\* malloc has refused an allocate_data whose bucket was empty, with room left
\* in the system allocator, while the other data bucket held a block
C25_Witness ==
    /\ last.op = "alloc_data"
    /\ last.n < NBUCKETS
    /\ last.ret = NULL
    /\ Len(last.calls) = 1
    /\ datacache # <<>>
    /\ FreshBases(heap, CacheBlocks, {0}) # {}

\* C26: every block the zeroed data allocation of sz bytes returns has its
\* sz bytes equal to zero, whether it comes from a bucket, where it may hold
\* what a caller wrote, or from calloc.
C26_ZeroedBlock ==
    (last.op = "alloc_zero" /\ last.ret # NULL) =>
        \A i \in 0 .. (last.n - 1) : Byte(Machine, last.ret + i) = 0

\* a zeroed allocation has been served from a bucket with a block a caller
\* had written
C26_Witness ==
    /\ last.op = "alloc_zero"
    /\ last.calls = <<>>
    /\ last.n < NBUCKETS
    /\ last.pre = <<Pat(0)>>
    /\ Byte(Machine, last.ret) = 0
    /\ Byte(Machine, last.ret + last.n - 1) = 0

\* C27: a call that makes no system allocator call (a zeroed allocation
\* refused for overflow, a free of NULL, an allocation served from a bucket)
\* does not invoke the event hook.
C27_HookOnlyOnSystemTraffic ==
    (last.op \in {"new_zeroed", "free_raw", "alloc_data", "alloc_zero", "free_data",
                  "alloc_dim", "free_dim"}
        /\ last.calls = <<>>)
        => last.hooks = <<>>

\* C29: PyDataMem_NEW(size) asks malloc for size + PtrSize + (alignment - 1)
\* bytes; for every base b malloc returns, the address returned is the lowest
\* multiple of the alignment that is >= b + PtrSize, and the word before it
\* and the size bytes from it on lie inside [b, b + requested).
C29_NewGeometry ==
    (last.op = "new" /\ last.ret # NULL) =>
        LET req == last.calls[1][2]
            b == last.calls[1][3]
        IN /\ req = last.n + PtrSize + (datamem_align - 1)
           /\ last.ret % datamem_align = 0
           /\ last.ret >= b + PtrSize
           /\ last.ret - datamem_align < b + PtrSize
           /\ b <= last.ret - PtrSize
           /\ last.ret + last.n <= b + req

\* C28: every call returns.  A set_alignment that has started, its purge over
\* the NBUCKETS buckets included, reaches its return; allocate_data and
\* free_data are straight-line and return in the step that runs them.
C28_CallsReturn == (thr[1].pc # "idle") ~> (thr[1].pc = "idle")

\* a set_alignment has returned after its purge released two blocks
C28_Witness ==
    /\ thr[1].pc = "idle"
    /\ thr[1].n = NBUCKETS
    /\ Len(thr[1].seen) = 2
    /\ datacache = <<>>
    /\ datamem_align = thr[1].arg[1]

\* C31: a hook that allocates and frees through npy_alloc_cache and
\* npy_free_cache while it is invoked, the invocations from inside the purge
\* included, leaves the subsystem safe: no block is released twice and every
\* block a caller or the hook holds lies in a live allocation (it is never a
\* block the purge has released).
C31_ReentrantHookSafe ==
    /\ fault = "none"
    /\ \A blk \in held : AllocationOf(heap, blk.p) # {}

\* C32: whatever set_alignment calls lie between the allocation of a block and
\* its reallocation, a successful reallocate returns a region
\* [address, address + newSize) inside one live system allocation, and the move
\* of the payload has read and written inside the allocation only.
C32_RenewInBounds ==
    (last.op = "renew")
        => /\ fault \notin {"oob_read", "oob_write"}
           /\ last.ret # NULL => InBounds(heap, last.ret, last.n)

\* C33: an allocate_data(size) or allocate_dims(count) that returns a block
\* fresh from the system allocator has asked it for at least the bytes the
\* caller requested: size bytes of data, the clamped count times the word size
\* for dimensions.
C33_NoWrappedRequest ==
    (last.op \in {"alloc_data", "alloc_dim"} /\ last.ret # NULL /\ last.calls # <<>>)
        => last.calls[1][2] >= (IF last.op = "alloc_data" THEN last.n
                                ELSE dim_clamp(last.n) * IntpSize)

\* C34: callers freeing only blocks they hold, a call hands to free() only live
\* allocations, each once, and none that holds a block a caller has after the
\* call; free() runs only in a free_data / free_dims the cache does not absorb
\* (size class outside the cache, or bucket full) and in the purge of a raising
\* set_alignment, which releases exactly the cached data blocks; every block a
\* caller holds stays inside a live allocation.
C34_Step ==
    LET calls == last'.calls
        fr == {i \in 1 .. Len(calls) : calls[i][1] = "free"}
        bases == {calls[i][2] : i \in fr}
    IN /\ fault' \notin {"bad_free", "bad_realloc"}
       /\ bases \subseteq DOMAIN heap
       /\ Cardinality(bases) = Cardinality(fr)
       /\ \A blk \in held' : AllocationOf(heap, blk.p) \cap bases = {}
       /\ \A blk \in held' : AllocationOf(heap', blk.p) # {}
       /\ fr # {} =>
            \/ /\ last'.op = "free_data"
               /\ last'.n >= NBUCKETS \/ Bucket(datacache, last'.n).available = NCACHE
               /\ bases = AllocationOf(heap, last'.arg)
            \/ /\ last'.op = "free_dim"
               /\ \/ dim_clamp(last'.n) >= NBUCKETS_DIM
                  \/ Bucket(dimcache, dim_clamp(last'.n)).available = NCACHE
               /\ bases = AllocationOf(heap, last'.arg)
            \/ /\ last'.op = "set_align"
               /\ last'.arg > datamem_align
               /\ bases = UNION {AllocationOf(heap, q) : q \in BucketPtrs(datacache)}
C35_NoNullCall ==
    \A t \in Threads :
        thr[t].pc = "h_call" => (thr[t].fn # NULL /\ eventhook # NULL)

\* a thread is about to call the hook while the other thread, inside
\* PyDataMem_SetEventHook(NULL, ...), waits for the lock
C35_Witness ==
    \E t, u \in Threads :
        /\ thr[t].pc = "h_call"
        /\ thr[t].fn # NULL
        /\ thr[u].pc = "s_lock"
        /\ thr[u].arg[1] = NULL

\* C36: with a hook registered, the purge of a raising set_alignment invokes
\* the hook once for every block it releases, and for nothing else, with the
\* arguments (addr, NULL, 0) and the registered user data; the alignment
\* get_alignment returns is still the old one at every invocation, and when it
\* becomes the higher one the cache is empty and no invocation follows.
C36_Step ==
    LET released == (DOMAIN heap) \ (DOMAIN heap')
        before == thr[1].seen
        after == thr'[1].seen
    IN /\ (thr[1].pc \in {"c_outer", "c_inner", "c_hook", "c_reset"} /\ eventhook # NULL) =>
            /\ Cardinality(released) <= 1
            /\ Len(after) = Len(before) + Cardinality(released)
            /\ released # {} =>
                 /\ after[Len(after)][1] = eventhook
                 /\ after[Len(after)][2] \in BucketPtrs(datacache)
                 /\ AllocationOf(heap, after[Len(after)][2]) = released
                 /\ after[Len(after)][3] = NULL
                 /\ after[Len(after)][4] = 0
                 /\ after[Len(after)][5] = eventhook_user_data
                 /\ \A i \in 1 .. Len(before) : before[i][2] # after[Len(after)][2]
                 /\ npy_datamem_get_align < thr[1].arg[1]
                 /\ npy_datamem_get_align' = npy_datamem_get_align
       /\ npy_datamem_get_align' > npy_datamem_get_align =>
            /\ datacache = <<>>
            /\ thr[1].pc = "sa_align"
            /\ after = before
       /\ thr[1].pc \in {"sa_align", "sa_mask"} => after = before
C36_PurgeNotifies == [][C36_Step]_vars

\* a raising set_alignment has returned after its purge released two cached
\* blocks and invoked the hook for each
C36_Witness ==
    /\ thr[1].pc = "idle"
    /\ eventhook # NULL
    /\ Len(thr[1].seen) = 2
    /\ thr[1].seen[1][2] # thr[1].seen[2][2]
    /\ npy_datamem_get_align = 2 * MIN_ALIGN
    /\ datacache = <<>>

\* C37: the buckets 0 and 1 of the dimension cache are empty in every
\* reachable state.
C37_LowDimBucketsEmpty ==
    /\ Bucket(dimcache, 0).available = 0
    /\ Bucket(dimcache, 1).available = 0

\* free_dims with a count below 2 has put its block into the cache, which
\* holds it in bucket 2
C37_Witness ==
    /\ last.op = "free_dim"
    /\ last.n < 2
    /\ last.arg # NULL
    /\ last.calls = <<>>
    /\ last.arg \in BucketPtrs(dimcache)
    /\ Bucket(dimcache, 2).available > 0
    /\ Bucket(dimcache, 0).available = 0
    /\ Bucket(dimcache, 1).available = 0

C39_AlignmentState ==
    /\ \E k \in 0 .. (WordBits - 1) : datamem_align = 2 ^ k
    /\ datamem_align >= MIN_ALIGN
    /\ datamem_align_mask = datamem_align - 1
    /\ last.op = "init" => datamem_align = MIN_ALIGN

\* set_alignment has turned down a request while the alignment, set by an
\* earlier call, is above MIN_ALIGN
C39_Witness ==
    /\ last.op = "set_align"
    /\ last.ret = -1
    /\ datamem_align = 2 * MIN_ALIGN
    /\ datamem_align_mask = 2 * MIN_ALIGN - 1

\* the NPY_FPE_* bit of an FE_* flag
FpeOf(x) ==
    IF x = FE_DIVBYZERO THEN NPY_FPE_DIVIDEBYZERO
    ELSE IF x = FE_OVERFLOW THEN NPY_FPE_OVERFLOW
    ELSE IF x = FE_UNDERFLOW THEN NPY_FPE_UNDERFLOW
    ELSE NPY_FPE_INVALID

\* C40: npy_clear_floatstatus_barrier returns what npy_get_floatstatus_barrier
\* returns in the state it is called in, and npy_get_floatstatus_barrier
\* returns 0 right after it; npy_get_floatstatus_barrier leaves the flags as
\* they are; npy_set_floatstatus_X adds the flag X to the status and leaves the
\* other three flags as they were.
C40_Step ==
    /\ last'.op = "clear_floatstatus" =>
          /\ last'.ret = npy_get_floatstatus_barrier(fenv_flags)
          /\ npy_get_floatstatus_barrier(fenv_flags') = 0
    /\ last'.op = "get_floatstatus" =>
          /\ fenv_flags' = fenv_flags
          /\ last'.ret = npy_get_floatstatus_barrier(fenv_flags')
    /\ last'.op = "set_floatstatus" =>
          npy_get_floatstatus_barrier(fenv_flags') =
              BitOr(npy_get_floatstatus_barrier(fenv_flags), FpeOf(last'.arg))
C40_StickyFlags == [][C40_Step]_vars

\* npy_clear_floatstatus_barrier has returned overflow and invalid, set before
\* by npy_set_floatstatus_overflow and an operation, and the status is 0 now
C40_Witness ==
    /\ last.op = "clear_floatstatus"
    /\ last.ret = NPY_FPE_OVERFLOW + NPY_FPE_INVALID
    /\ npy_get_floatstatus_barrier(fenv_flags) = 0
    /\ fenv_flags = FE_INEXACT

====
